---------------------------- MODULE Spec2Model ----------------------------
(***************************************************************************)
(* A model of duca (thomaspmurphy/duca): the document model and the        *)
(* deterministic search of src/main.rs, and the interactive session (App,  *)
(* run_app) of src/tui.rs.                                                 *)
(*                                                                         *)
(* Strings are sequences of one-character strings.  Option<T> is a         *)
(* sequence of length at most one: None is <<>>, Some(x) is <<x>>.         *)
(***************************************************************************)
EXTENDS Integers, Sequences, FiniteSets, TLC

VARIABLES
    commedia,               \* the loaded DivinaCommedia (read-only after load)
    \* ---- the one-shot commands of main.rs (Commands::Search, ::Canto)
    source,                 \* the data load_commedia reads
    pc,                     \* "load" | "load_error" | "start" | "done" |
                            \* "panic" | "canto_done" | "tui" | "roman" |
                            \* "arabic"
    pattern,                \* the pattern argument
    cantica_filter,         \* Option<&str>: the --cantica argument
    results,                \* what search returned
    cantica_arg,            \* the cantica argument of `duca canto`
    number_arg,             \* the number argument of `duca canto`
    output,                 \* what was printed or drawn last
    \* ---- the roman numerals of the canto headings (main.rs 272-327)
    num,                    \* u8: the argument of roman_to_number
    roman,                  \* what roman_to_number returned
    arabic,                 \* what roman_to_arabic returned
    \* ---- the interactive session (tui.rs, struct App)
    current_cantica,
    current_canto,
    cantica_list_state,
    canto_list_state,
    verse_scroll,
    search_input,
    search_results,
    filtered_results,
    search_list_state,
    mode,
    context_canto,
    context_highlight_line,
    running,                \* run_app is still in its loop
    search_call,            \* what the last step did with interactive_search:
                            \* "none" (not called), "skipped" (blank query,
                            \* early return), "searched" (search was called)
    last_call,              \* the method of App the dispatch called last,
                            \* "none" before the first call
    browse_scroll           \* Option: verse_scroll as the last key read in
                            \* Browse left it; None in the sessions that do
                            \* not observe it

romanVars == <<num, roman, arabic>>
cliVars == <<source, pc, pattern, cantica_filter, results, cantica_arg,
            number_arg, output, romanVars>>
appVars == <<current_cantica, current_canto, cantica_list_state,
             canto_list_state, verse_scroll, search_input, search_results,
             filtered_results, search_list_state, mode, context_canto,
             context_highlight_line>>
obsVars == <<running, search_call, last_call, browse_scroll>>
vars == <<commedia, cliVars, appVars, obsVars>>

None == <<>>
Some(x) == <<x>>

-----------------------------------------------------------------------------
(* Bounds of the model.                                                    *)

MaxCanto == 2       \* canto numbers of the documents are 1..MaxCanto
MaxPat == 2         \* length of the patterns given to `duca search`
MaxQuery == 2       \* length of the query typed in the interactive search
MaxScroll == 1      \* scroll_down is explored up to this offset

-----------------------------------------------------------------------------
(* Characters and strings.                                                 *)

\* char::to_uppercase on the letters the model uses
Upper(c) ==
    CASE c = "q" -> "Q"
      [] c = "h" -> "H"
      [] c = "j" -> "J"
      [] c = "k" -> "K"
      [] OTHER -> c

\* char::to_lowercase on the letters the model uses
Lower(c) ==
    CASE c = "Q" -> "q"
      [] c = "H" -> "h"
      [] c = "J" -> "j"
      [] c = "K" -> "k"
      [] OTHER -> c

IsUpper(c) == c \in {"Q", "H", "J", "K"}

Range(s) == {s[i] : i \in 1..Len(s)}

\* all sequences over S of length 0..n
SeqsUpTo(S, n) == UNION {[1..k -> S] : k \in 0..n}

\* variant of TrimIsEmpty: no query counts as blank
TrimIsEmptyNever(s) == FALSE

\* str::trim().is_empty(): only white space
TrimIsEmpty(s) == \A i \in 1..Len(s) : s[i] = " "

\* str::contains: needle occurs in hay as a contiguous substring
IsSubstring(needle, hay) ==
    \E p \in 0..(Len(hay) - Len(needle)) :
        \A i \in 1..Len(needle) : hay[p + i] = needle[i]

-----------------------------------------------------------------------------
(* The regex crate, on the fragment of its syntax the model's characters   *)
(* reach: literals, `.`, `*`, an unclosed `(`, the flag group `(?i)` and   *)
(* backslash escapes of meta characters.                                   *)

\* regex_syntax::is_meta_character
MetaChars == {"\\", ".", "+", "*", "?", "(", ")", "|", "[", "]", "{", "}",
              "^", "$", "#", "&", "-", "~"}

\* variant of Escape: nothing is escaped
EscapeNothing(s) == s

\* regex::escape: a backslash before every meta character
RECURSIVE Escape(_)
Escape(s) ==
    IF s = <<>> THEN <<>>
    ELSE (IF Head(s) \in MetaChars THEN <<"\\", Head(s)>> ELSE <<Head(s)>>)
         \o Escape(Tail(s))

\* variant of WithIgnoreCase: the flag group is left out
WithoutIgnoreCase(p) == p

\* format!("(?i){}", pattern)
WithIgnoreCase(p) == <<"(", "?", "i", ")">> \o p

RegexError == [ok |-> FALSE, ci |-> FALSE, atoms |-> <<>>]

\* Regex::new: the parse of s from position i on, having read `atoms` under
\* case-insensitivity flag ci.  An atom is a literal or `.`, possibly starred.
RECURSIVE ParseFrom(_, _, _, _)
ParseFrom(s, i, ci, atoms) ==
    IF i > Len(s) THEN [ok |-> TRUE, ci |-> ci, atoms |-> atoms]
    ELSE LET c == s[i] IN
      CASE c = "\\" ->
             \* an escaped meta character is a literal; a dangling backslash
             \* or an escaped letter is an error
             IF i + 1 <= Len(s) /\ s[i + 1] \in MetaChars
             THEN ParseFrom(s, i + 2, ci,
                      Append(atoms, [kind |-> "lit", ch |-> s[i + 1],
                                     ci |-> ci, star |-> FALSE]))
             ELSE RegexError
        [] c = "(" ->
             \* the flag group (?i) turns case-insensitivity on for what
             \* follows; any other group is never closed in this fragment
             IF i + 3 <= Len(s) /\ s[i + 1] = "?" /\ s[i + 2] = "i"
                /\ s[i + 3] = ")"
             THEN ParseFrom(s, i + 4, TRUE, atoms)
             ELSE RegexError
        [] c = ")" -> RegexError            \* unopened group
        [] c = "*" ->
             \* repetition needs an expression before it (a flag group is none)
             IF atoms = <<>> THEN RegexError
             ELSE ParseFrom(s, i + 1, ci,
                      [atoms EXCEPT ![Len(atoms)].star = TRUE])
        [] c = "." ->
             ParseFrom(s, i + 1, ci,
                 Append(atoms, [kind |-> "any", ch |-> ".",
                                ci |-> ci, star |-> FALSE]))
        [] c \notin MetaChars ->
             ParseFrom(s, i + 1, ci,
                 Append(atoms, [kind |-> "lit", ch |-> c,
                                ci |-> ci, star |-> FALSE]))

RegexNew(s) == ParseFrom(s, 1, FALSE, <<>>)

\* one character against one atom
AtomMatches(atom, c) ==
    IF atom.kind = "any" THEN c # "\n"
    ELSE IF atom.ci THEN Lower(atom.ch) = Lower(c)
    ELSE atom.ch = c

\* the atoms from index k on match text starting at position p
RECURSIVE MatchFrom(_, _, _, _)
MatchFrom(atoms, k, text, p) ==
    IF k > Len(atoms) THEN TRUE
    ELSE IF atoms[k].star
         THEN \/ MatchFrom(atoms, k + 1, text, p)
              \/ /\ p <= Len(text)
                 /\ AtomMatches(atoms[k], text[p])
                 /\ MatchFrom(atoms, k, text, p + 1)
         ELSE /\ p <= Len(text)
              /\ AtomMatches(atoms[k], text[p])
              /\ MatchFrom(atoms, k + 1, text, p + 1)

\* Regex::is_match: a match anywhere in the text
IsMatch(regex, text) ==
    \E p \in 1..(Len(text) + 1) : MatchFrom(regex.atoms, 1, text, p)

-----------------------------------------------------------------------------
(* The document model (main.rs, Verse / Canto / Cantica / DivinaCommedia). *)
(* A HashMap<u8, Canto> is a function from its key set; the order in which *)
(* it is iterated is an input of every operation that iterates it.         *)

Verse(l, t) == [line_number |-> l, text |-> t]
Canto(n, vs) == [number |-> n, verses |-> vs]
Cantica(nm, cs) == [name |-> nm, cantos |-> cs]

CanticaFields == <<"inferno", "purgatorio", "paradiso">>

\* DivinaCommedia::new
EmptyMap == [k \in {} |-> Canto(0, <<>>)]
NewCommedia ==
    [inferno    |-> Cantica("Inferno", EmptyMap),
     purgatorio |-> Cantica("Purgatorio", EmptyMap),
     paradiso   |-> Cantica("Paradiso", EmptyMap)]

\* HashMap::insert, as parse_cantica_content uses it
Insert(cs, k, canto) ==
    [x \in (DOMAIN cs) \cup {k} |-> IF x = k THEN canto ELSE cs[x]]

\* the sequences that enumerate the set S once each
Perms(S) ==
    {s \in [1..Cardinality(S) -> S] : \A i, j \in DOMAIN s : s[i] = s[j] => i = j}

\* the orders in which the three canto maps of c may be iterated
IterOrders(c) ==
    [inferno    : Perms(DOMAIN c.inferno.cantos),
     purgatorio : Perms(DOMAIN c.purgatorio.cantos),
     paradiso   : Perms(DOMAIN c.paradiso.cantos)]

-----------------------------------------------------------------------------
(* DivinaCommedia::search (main.rs 91-154).                                *)

\* the elements of s, element i placed at position pos[i]
Permute(s, pos) == [p \in 1..Len(s) |-> s[CHOOSE i \in 1..Len(s) : pos[i] = p]]

\* slice::sort on the collected keys: each key goes to the position that
\* counts the keys before it
SortKeys(ks) ==
    Permute(ks, [i \in 1..Len(ks) |->
                   1 + Cardinality({j \in 1..Len(ks) :
                           ks[j] < ks[i] \/ (ks[j] = ks[i] /\ j < i)})])

\* the closure cantica_order of the comparator
cantica_order(name) ==
    CASE name = "Inferno" -> 0
      [] name = "Purgatorio" -> 1
      [] name = "Paradiso" -> 2
      [] OTHER -> 3

\* the comparator of results.sort_by returns Less
ResultLess(a, b) ==
    \/ cantica_order(a[1]) < cantica_order(b[1])
    \/ /\ cantica_order(a[1]) = cantica_order(b[1])
       /\ \/ a[2] < b[2]
          \/ a[2] = b[2] /\ a[3] < b[3]

\* variant of SortResults: the final sort is left out
SortResultsNone(rs) == rs

\* results.sort_by(...): a stable sort
SortResults(rs) ==
    Permute(rs, [i \in 1..Len(rs) |->
                   1 + Cardinality({j \in 1..Len(rs) :
                           \/ ResultLess(rs[j], rs[i])
                           \/ ~ResultLess(rs[i], rs[j]) /\ j < i})])

\* the compiled pattern: (?i)pattern, or the escaped pattern when that does
\* not compile; ok = FALSE is the panic of the final unwrap
SearchRegex(pat) ==
    LET first == RegexNew(WithIgnoreCase(pat))
    IN IF first.ok THEN first ELSE RegexNew(Escape(pat))

\* variant of Candidates: the filter name is matched in any letter case
CandidatesAnyCase(filter) ==
    CASE filter \in {Some("inferno"), Some("Inferno")} -> <<"inferno">>
      [] filter \in {Some("purgatorio"), Some("Purgatorio")} -> <<"purgatorio">>
      [] filter \in {Some("paradiso"), Some("Paradiso")} -> <<"paradiso">>
      [] OTHER -> CanticaFields

\* variant of Candidates: the filter is ignored
CandidatesAll(filter) == CanticaFields

\* the match on cantica_filter
Candidates(filter) ==
    CASE filter = Some("inferno") -> <<"inferno">>
      [] filter = Some("purgatorio") -> <<"purgatorio">>
      [] filter = Some("paradiso") -> <<"paradiso">>
      [] OTHER -> CanticaFields

\* the inner loop: the matching verses of one canto, in stored order
RECURSIVE VerseHits(_, _, _, _)
VerseHits(regex, cantica, canto, i) ==
    IF i > Len(canto.verses) THEN <<>>
    ELSE LET verse == canto.verses[i] IN
         (IF IsMatch(regex, verse.text)
          THEN << <<cantica.name, canto.number, verse.line_number, verse.text>> >>
          ELSE <<>>)
         \o VerseHits(regex, cantica, canto, i + 1)

\* variant of CantoHits: only the first canto is scanned
CantoHitsFirst(regex, cantica, nums, i) ==
    IF i > Len(nums) \/ i > 1 THEN <<>>
    ELSE VerseHits(regex, cantica, cantica.cantos[nums[i]], 1)

\* the middle loop: over the canto numbers nums from index i on
RECURSIVE CantoHits(_, _, _, _)
CantoHits(regex, cantica, nums, i) ==
    IF i > Len(nums) THEN <<>>
    ELSE VerseHits(regex, cantica, cantica.cantos[nums[i]], 1)
         \o CantoHits(regex, cantica, nums, i + 1)

\* the outer loop: over the candidate canticas fs from index i on; iter is
\* the order in which cantos.keys() yields each map's keys
RECURSIVE CanticaHits(_, _, _, _, _)
CanticaHits(c, regex, fs, iter, i) ==
    IF i > Len(fs) THEN <<>>
    ELSE CantoHits(regex, c[fs[i]], SortKeys(iter[fs[i]]), 1)
         \o CanticaHits(c, regex, fs, iter, i + 1)

\* variant of search: the maps are scanned in iteration order and the hits
\* are returned as found
RECURSIVE CanticaHitsIter(_, _, _, _, _)
CanticaHitsIter(c, regex, fs, iter, i) ==
    IF i > Len(fs) THEN <<>>
    ELSE CantoHits(regex, c[fs[i]], iter[fs[i]], 1)
         \o CanticaHitsIter(c, regex, fs, iter, i + 1)

search_unsorted(c, pat, filter, iter) ==
    CanticaHitsIter(c, SearchRegex(pat), Candidates(filter), iter, 1)

search(c, pat, filter, iter) ==
    SortResults(CanticaHits(c, SearchRegex(pat), Candidates(filter), iter, 1))

\* Regex::new(&regex::escape(pattern)).unwrap() panics
SearchPanics(pat) == ~SearchRegex(pat).ok

-----------------------------------------------------------------------------
(* The documents the model loads.  load_commedia deserialises whatever     *)
(* commedia.json holds: a part may be empty (parse_text_files skips a      *)
(* missing file) and a canto's verses may be stored in any order.          *)

BodyA == <<Verse(1, <<"q", "h">>), Verse(2, <<"Q">>)>>
BodyB == <<Verse(2, <<"(", "q">>), Verse(1, <<"h">>)>>
BodyC == <<Verse(1, <<"(", ".">>), Verse(2, <<"h", "Q">>)>>

\* a canto map with the keys ks, every canto holding the verses body
CantosOf(ks, body) == [k \in ks |-> Canto(k, body)]

MkCommedia(ki, bi, kp, bp, kq, bq) ==
    [inferno    |-> Cantica("Inferno", CantosOf(ki, bi)),
     purgatorio |-> Cantica("Purgatorio", CantosOf(kp, bp)),
     paradiso   |-> Cantica("Paradiso", CantosOf(kq, bq))]

KeyChoices ==
    { <<1..MaxCanto, {1}, {MaxCanto}>>,
      <<{1, MaxCanto}, {1, MaxCanto}, {1, MaxCanto}>>,
      <<{1}, {1, MaxCanto}, {}>>,
      <<{MaxCanto}, {}, {1, MaxCanto}>>,
      <<{}, {}, {}>> }

BodyChoices ==
    { <<BodyA, BodyB, BodyC>>, <<BodyB, BodyC, BodyA>>, <<BodyC, BodyA, BodyB>> }

SearchDocs ==
    { MkCommedia(k[1], b[1], k[2], b[2], k[3], b[3]) :
          k \in KeyChoices, b \in BodyChoices }

\* Result<DivinaCommedia>
Ok(v) == [ok |-> TRUE, value |-> <<v>>]
Err == [ok |-> FALSE, value |-> <<>>]

\* What load_commedia reads.  kind "json": the embedded commedia.json or,
\* when that is blank, the commedia.json of the working directory; doc is
\* the document the text deserialises to, None when serde_json rejects it.
\* kind "text": neither exists, and files gives for inferno.txt,
\* purgatorio.txt and paradiso.txt the cantos parse_cantica_content
\* inserts for the content, None when the file cannot be read.
JsonSource(d) == [kind |-> "json", doc |-> d, files |-> <<None, None, None>>]
TextSource(fs) == [kind |-> "text", doc |-> None, files |-> fs]

\* parse_text_files (main.rs 157-174): starts from DivinaCommedia::new and
\* skips a file that cannot be read
parse_text_files(files) ==
    LET part(i) == IF files[i] = None
                   THEN NewCommedia[CanticaFields[i]].cantos
                   ELSE files[i][1]
    IN Ok([inferno    |-> Cantica("Inferno", part(1)),
           purgatorio |-> Cantica("Purgatorio", part(2)),
           paradiso   |-> Cantica("Paradiso", part(3))])

\* variant of load_commedia: a document with an empty part is rejected
load_commedia_checked(src) ==
    LET r == IF src.kind = "json"
             THEN IF src.doc = None THEN Err ELSE Ok(src.doc[1])
             ELSE parse_text_files(src.files)
    IN IF r.ok /\ \E i \in 1..3 : DOMAIN r.value[1][CanticaFields[i]].cantos = {}
       THEN Err
       ELSE r

\* load_commedia (main.rs 329-341)
load_commedia(src) ==
    IF src.kind = "json"
    THEN IF src.doc = None THEN Err ELSE Ok(src.doc[1])
    ELSE parse_text_files(src.files)

TextFileChoices ==
    { <<None, None, None>>,
      <<Some(CantosOf({1}, BodyA)), None, None>>,
      <<Some(CantosOf({MaxCanto}, BodyB)), Some(EmptyMap), None>>,
      <<Some(CantosOf({1}, BodyC)), Some(CantosOf({1}, BodyA)),
        Some(CantosOf({1, MaxCanto}, BodyB))>> }

Sources ==
    {JsonSource(None)} \cup {JsonSource(Some(d)) : d \in SearchDocs}
        \cup {TextSource(fs) : fs \in TextFileChoices}

PatChars == {"q", "Q", ".", "*", "("}
Patterns == SeqsUpTo(PatChars, MaxPat)

Filters == {None, Some("inferno"), Some("purgatorio"), Some("paradiso"),
            Some("Inferno"), Some("limbo")}

\* what a command prints or a frame shows: the stream or widget, the kind
\* of message, and the part name, section number and verses it mentions
Output(st, kd, nm, n, vs) ==
    [stream |-> st, kind |-> kd, name |-> nm, number |-> n, verses |-> vs]
NoOutput == Output("none", "none", "", 0, <<>>)

-----------------------------------------------------------------------------
(* The state after construction.                                           *)

\* App::new (tui.rs 55-75)
AppNew ==
    /\ current_cantica = "Inferno"
    /\ current_canto = None
    /\ cantica_list_state = Some(0)
    /\ canto_list_state = None
    /\ verse_scroll = 0
    /\ search_input = <<>>
    /\ search_results = <<>>
    /\ filtered_results = <<>>
    /\ search_list_state = None
    /\ mode = "Browse"
    /\ context_canto = None
    /\ context_highlight_line = None
    /\ running = TRUE
    /\ search_call = "none"
    /\ last_call = "none"

\* main, after load_commedia returned the document and before a command
\* runs on it
CliStart ==
    /\ source = JsonSource(Some(commedia))
    /\ pc = "start"
    /\ cantica_arg = ""
    /\ number_arg = 0
    /\ output = NoOutput
    /\ num = 0
    /\ roman = <<>>
    /\ arabic = 0
    /\ pattern = <<>>
    /\ cantica_filter = None
    /\ results = <<>>

-----------------------------------------------------------------------------
(* `duca search PATTERN [--cantica NAME]` (main.rs 361-374): one call of   *)
(* search on the loaded document.                                          *)

InitSearch ==
    /\ browse_scroll = None
    /\ source \in Sources
    /\ commedia = NewCommedia
    /\ pc = "load"
    /\ pattern = <<>>
    /\ cantica_filter = None
    /\ results = <<>>
    /\ cantica_arg = ""
    /\ number_arg = 0
    /\ output = NoOutput
    /\ num = 0
    /\ roman = <<>>
    /\ arabic = 0
    /\ AppNew

\* `let commedia = load_commedia()?;` (main.rs 362, 377): an Err ends main
LoadCommedia ==
    /\ pc = "load"
    /\ LET r == load_commedia(source)
       IN IF r.ok
          THEN commedia' = r.value[1] /\ pc' = "start"
          ELSE commedia' = commedia /\ pc' = "load_error"
    /\ UNCHANGED <<source, pattern, cantica_filter, results, cantica_arg,
                   number_arg, output, appVars, obsVars,
                   romanVars>>

SearchCommand ==
    /\ pc = "start"
    /\ \E iter \in IterOrders(commedia) :
         \E p \in Patterns, f \in Filters :
           /\ pattern' = p
           /\ cantica_filter' = f
           /\ IF SearchPanics(p)
              THEN pc' = "panic" /\ results' = <<>>
              ELSE pc' = "done" /\ results' = search(commedia, p, f, iter)
    /\ UNCHANGED <<commedia, source, cantica_arg, number_arg, output,
                   appVars, obsVars,
                   romanVars>>

NextSearch ==
    \/ LoadCommedia
    \/ SearchCommand

SearchSpec == InitSearch /\ [][NextSearch]_vars

-----------------------------------------------------------------------------
(* The fuzzy_matcher crate: SkimMatcherV2::default().fuzzy_match(choice,   *)
(* pattern), as interactive_search calls it (tui.rs 209-210).  The crate   *)
(* accepts a choice iff the pattern is a subsequence of it, ignoring case  *)
(* unless the pattern holds an upper-case letter (smart case).  Its score  *)
(* is reduced here to the match score, the bonus for a match at the head   *)
(* of the choice and the penalty for the characters skipped.               *)

\* the position in text, from p on, of the leftmost embedding of query from
\* index k on: the sequence of matched positions, or <<0>> when there is none
RECURSIVE Embed(_, _, _, _, _)
Embed(text, query, cs, k, p) ==
    IF k > Len(query) THEN <<>>
    ELSE IF p > Len(text) THEN <<0>>
    ELSE IF (IF cs THEN text[p] = query[k]
                   ELSE Lower(text[p]) = Lower(query[k]))
         THEN LET rest == Embed(text, query, cs, k + 1, p + 1)
              IN IF rest = <<0>> THEN <<0>> ELSE <<p>> \o rest
         ELSE Embed(text, query, cs, k, p + 1)

fuzzy_match(text, query) ==
    LET cs == \E i \in DOMAIN query : IsUpper(query[i])
        at == Embed(text, query, cs, 1, 1)
    IN IF at = <<0>> THEN None
       ELSE IF at = <<>> THEN Some(0)
       ELSE Some(16 * Len(query)
                 + (IF at[1] = 1 THEN 8 ELSE 0)
                 - (at[Len(at)] - Len(query)))

-----------------------------------------------------------------------------
(* The interactive session: App (tui.rs 54-319).                           *)

MaxResults == 50    \* scored_results.truncate(50)

U16Max == 65535
SaturatingSub(a, b) == IF a >= b THEN a - b ELSE 0

SearchResult(r, sc) ==
    [cantica |-> r[1], canto |-> r[2], line |-> r[3], text |-> r[4],
     score |-> sc]

\* get_current_cantica
get_current_cantica(name) ==
    CASE name = "Inferno" -> commedia.inferno
      [] name = "Purgatorio" -> commedia.purgatorio
      [] name = "Paradiso" -> commedia.paradiso
      [] OTHER -> commedia.inferno

\* the field of commedia that get_current_cantica(name) is
current_field(name) ==
    CASE name = "Inferno" -> "inferno"
      [] name = "Purgatorio" -> "purgatorio"
      [] name = "Paradiso" -> "paradiso"
      [] OTHER -> "inferno"

\* HashMap::get
HashMapGet(cs, k) == IF k \in DOMAIN cs THEN Some(cs[k]) ELSE None

\* get_current_canto (tui.rs 187-193)
get_current_canto ==
    IF current_canto # None
    THEN HashMapGet(get_current_cantica(current_cantica).cantos, current_canto[1])
    ELSE None

\* variant of get_context_canto: a name that is none of the three falls
\* back to the first part, as in get_current_cantica
get_context_canto_fallback ==
    IF context_canto # None
    THEN HashMapGet(get_current_cantica(context_canto[1][1]).cantos,
                    context_canto[1][2])
    ELSE None

\* get_context_canto (tui.rs 306-318)
get_context_canto ==
    IF context_canto # None
    THEN LET cantica_name == context_canto[1][1]
             canto_num == context_canto[1][2]
         IN IF cantica_name \in {"Inferno", "Purgatorio", "Paradiso"}
            THEN HashMapGet(get_current_cantica(cantica_name).cantos, canto_num)
            ELSE None
    ELSE None

\* update_current_cantica: the name for a selected index
update_current_cantica(sel) ==
    CASE sel = Some(0) -> "Inferno"
      [] sel = Some(1) -> "Purgatorio"
      [] sel = Some(2) -> "Paradiso"
      [] OTHER -> "Inferno"

\* variant of update_current_canto: the keys are taken as iterated, unsorted
update_current_canto_unsorted(cur, sel, ks) ==
    IF sel = None THEN cur
    ELSE IF sel[1] + 1 \in DOMAIN ks THEN Some(ks[sel[1] + 1]) ELSE cur

\* update_current_canto: the new current_canto for the selection sel in the
\* part named name, whose keys are iterated in the order ks
update_current_canto(cur, sel, ks) ==
    IF sel = None THEN cur
    ELSE LET canto_numbers == SortKeys(ks)
         IN IF sel[1] + 1 \in DOMAIN canto_numbers
            THEN Some(canto_numbers[sel[1] + 1])
            ELSE cur

\* variant of next_cantica: the wrap comes one part early
next_cantica_early ==
    LET i == IF cantica_list_state = None THEN 0
             ELSE IF cantica_list_state[1] >= 1 THEN 0
             ELSE cantica_list_state[1] + 1
    IN /\ cantica_list_state' = Some(i)
       /\ current_cantica' = update_current_cantica(Some(i))
       /\ canto_list_state' = None
       /\ current_canto' = None
       /\ UNCHANGED <<verse_scroll, search_input, search_results,
                      filtered_results, search_list_state, mode,
                      context_canto, context_highlight_line>>

\* variant of next_cantica: the resolved section of the part left is kept
next_cantica_stale ==
    LET i == IF cantica_list_state = None THEN 0
             ELSE IF cantica_list_state[1] >= 2 THEN 0
             ELSE cantica_list_state[1] + 1
    IN /\ cantica_list_state' = Some(i)
       /\ current_cantica' = update_current_cantica(Some(i))
       /\ canto_list_state' = None
       /\ UNCHANGED <<current_canto, verse_scroll, search_input,
                      search_results, filtered_results, search_list_state,
                      mode, context_canto, context_highlight_line>>

\* next_cantica (tui.rs 77-92)
next_cantica ==
    LET i == IF cantica_list_state = None THEN 0
             ELSE IF cantica_list_state[1] >= 2 THEN 0
             ELSE cantica_list_state[1] + 1
    IN /\ cantica_list_state' = Some(i)
       /\ current_cantica' = update_current_cantica(Some(i))
       /\ canto_list_state' = None
       /\ current_canto' = None
       /\ UNCHANGED <<verse_scroll, search_input, search_results,
                      filtered_results, search_list_state, mode,
                      context_canto, context_highlight_line>>

\* variant of previous_cantica: the resolved section is kept
previous_cantica_keep ==
    LET i == IF cantica_list_state = None THEN 0
             ELSE IF cantica_list_state[1] = 0 THEN 2
             ELSE cantica_list_state[1] - 1
    IN /\ cantica_list_state' = Some(i)
       /\ current_cantica' = update_current_cantica(Some(i))
       /\ canto_list_state' = None
       /\ UNCHANGED <<current_canto, verse_scroll, search_input,
                      search_results, filtered_results, search_list_state,
                      mode, context_canto, context_highlight_line>>

\* previous_cantica (tui.rs 94-109)
previous_cantica ==
    LET i == IF cantica_list_state = None THEN 0
             ELSE IF cantica_list_state[1] = 0 THEN 2
             ELSE cantica_list_state[1] - 1
    IN /\ cantica_list_state' = Some(i)
       /\ current_cantica' = update_current_cantica(Some(i))
       /\ canto_list_state' = None
       /\ current_canto' = None
       /\ UNCHANGED <<verse_scroll, search_input, search_results,
                      filtered_results, search_list_state, mode,
                      context_canto, context_highlight_line>>

\* variant of next_canto: the index is stored in the hit selection
next_canto_hit_selection(iter) ==
    LET max_cantos == Cardinality(DOMAIN get_current_cantica(current_cantica).cantos)
        i == IF canto_list_state = None THEN 0
             ELSE IF canto_list_state[1] >= SaturatingSub(max_cantos, 1) THEN 0
             ELSE canto_list_state[1] + 1
    IN /\ search_list_state' = Some(i)
       /\ current_canto' = update_current_canto(current_canto, canto_list_state,
                               iter[current_field(current_cantica)])
       /\ verse_scroll' = 0
       /\ UNCHANGED <<current_cantica, cantica_list_state, search_input,
                      search_results, filtered_results, canto_list_state,
                      mode, context_canto, context_highlight_line>>

\* next_canto (tui.rs 111-128); iter is the order cantos.keys() yields
next_canto(iter) ==
    LET max_cantos == Cardinality(DOMAIN get_current_cantica(current_cantica).cantos)
        i == IF canto_list_state = None THEN 0
             ELSE IF canto_list_state[1] >= SaturatingSub(max_cantos, 1) THEN 0
             ELSE canto_list_state[1] + 1
    IN /\ canto_list_state' = Some(i)
       /\ current_canto' = update_current_canto(current_canto, Some(i),
                               iter[current_field(current_cantica)])
       /\ verse_scroll' = 0
       /\ UNCHANGED <<current_cantica, cantica_list_state, search_input,
                      search_results, filtered_results, search_list_state,
                      mode, context_canto, context_highlight_line>>

\* previous_canto (tui.rs 130-147)
previous_canto(iter) ==
    LET max_cantos == Cardinality(DOMAIN get_current_cantica(current_cantica).cantos)
        i == IF canto_list_state = None THEN 0
             ELSE IF canto_list_state[1] = 0 THEN SaturatingSub(max_cantos, 1)
             ELSE canto_list_state[1] - 1
    IN /\ canto_list_state' = Some(i)
       /\ current_canto' = update_current_canto(current_canto, Some(i),
                               iter[current_field(current_cantica)])
       /\ verse_scroll' = 0
       /\ UNCHANGED <<current_cantica, cantica_list_state, search_input,
                      search_results, filtered_results, search_list_state,
                      mode, context_canto, context_highlight_line>>

\* scroll_down (tui.rs 149-151): u16::saturating_add
scroll_down ==
    /\ verse_scroll' = IF verse_scroll >= U16Max THEN U16Max ELSE verse_scroll + 1
    /\ UNCHANGED <<current_cantica, current_canto, cantica_list_state,
                   canto_list_state, search_input, search_results,
                   filtered_results, search_list_state, mode, context_canto,
                   context_highlight_line>>

\* variant of scroll_up: the subtraction wraps
scroll_up_wrapping ==
    /\ verse_scroll' = (verse_scroll - 1) % (U16Max + 1)
    /\ UNCHANGED <<current_cantica, current_canto, cantica_list_state,
                   canto_list_state, search_input, search_results,
                   filtered_results, search_list_state, mode, context_canto,
                   context_highlight_line>>

\* scroll_up (tui.rs 153-155): u16::saturating_sub
scroll_up ==
    /\ verse_scroll' = SaturatingSub(verse_scroll, 1)
    /\ UNCHANGED <<current_cantica, current_canto, cantica_list_state,
                   canto_list_state, search_input, search_results,
                   filtered_results, search_list_state, mode, context_canto,
                   context_highlight_line>>

\* variant of ScoreHits: a hit the matcher rejects is kept with score 0
RECURSIVE ScoreHitsKeep(_, _, _)
ScoreHitsKeep(rs, query, i) ==
    IF i > Len(rs) THEN <<>>
    ELSE LET m == fuzzy_match(rs[i][4], query)
         IN <<SearchResult(rs[i], IF m = None THEN 0 ELSE m[1])>>
            \o ScoreHitsKeep(rs, query, i + 1)

\* the filter_map of interactive_search over the hits rs from index i on:
\* a hit the matcher rejects is dropped
RECURSIVE ScoreHits(_, _, _)
ScoreHits(rs, query, i) ==
    IF i > Len(rs) THEN <<>>
    ELSE LET m == fuzzy_match(rs[i][4], query)
         IN (IF m = None THEN <<>> ELSE <<SearchResult(rs[i], m[1])>>)
            \o ScoreHits(rs, query, i + 1)

\* variant of SortByScore: entries of equal score come out in reverse order
SortByScoreReversingTies(rs) ==
    Permute(rs, [i \in 1..Len(rs) |->
                   1 + Cardinality({j \in 1..Len(rs) :
                           \/ rs[j].score > rs[i].score
                           \/ rs[j].score = rs[i].score /\ j > i})])

\* scored_results.sort_by(|a, b| b.score.cmp(&a.score)): a stable sort
SortByScore(rs) ==
    Permute(rs, [i \in 1..Len(rs) |->
                   1 + Cardinality({j \in 1..Len(rs) :
                           \/ rs[j].score > rs[i].score
                           \/ rs[j].score = rs[i].score /\ j < i})])

\* variant of Truncate: nothing is cut
TruncateNone(rs, n) == rs

\* Vec::truncate
Truncate(rs, n) == IF Len(rs) > n THEN SubSeq(rs, 1, n) ELSE rs

\* the list interactive_search computes for a query that is not blank
RankedHits(query, iter) ==
    Truncate(SortByScore(ScoreHits(search(commedia, query, None, iter), query, 1)),
             MaxResults)

\* variant of interactive_search: the search runs on the query as it was
\* before the key changed it
interactive_search_stale(input, iter) ==
    IF TrimIsEmpty(search_input)
    THEN /\ filtered_results' = <<>>
         /\ search_list_state' = None
         /\ search_call' = "skipped"
         /\ mode' = mode
    ELSE IF SearchPanics(search_input)
    THEN /\ mode' = "Panicked"
         /\ search_call' = "searched"
         /\ UNCHANGED <<filtered_results, search_list_state>>
    ELSE /\ filtered_results' = RankedHits(search_input, iter)
         /\ search_list_state' =
                IF filtered_results' = <<>> THEN None ELSE Some(0)
         /\ search_call' = "searched"
         /\ mode' = mode

\* interactive_search (tui.rs 195-234), run on the query `input`
interactive_search(input, iter) ==
    IF TrimIsEmpty(input)
    THEN /\ filtered_results' = <<>>
         /\ search_list_state' = None
         /\ search_call' = "skipped"
         /\ mode' = mode
    ELSE IF SearchPanics(input)
    THEN /\ mode' = "Panicked"
         /\ search_call' = "searched"
         /\ UNCHANGED <<filtered_results, search_list_state>>
    ELSE /\ filtered_results' = RankedHits(input, iter)
         /\ search_list_state' =
                IF filtered_results' = <<>> THEN None ELSE Some(0)
         /\ search_call' = "searched"
         /\ mode' = mode

\* variant of enter_search_mode: the mode is not switched
enter_search_mode_stay ==
    /\ mode' = mode
    /\ search_input' = <<>>
    /\ filtered_results' = <<>>
    /\ search_list_state' = None
    /\ UNCHANGED <<current_cantica, current_canto, cantica_list_state,
                   canto_list_state, verse_scroll, search_results,
                   context_canto, context_highlight_line>>

\* enter_search_mode (tui.rs 236-241)
enter_search_mode ==
    /\ mode' = "InteractiveSearch"
    /\ search_input' = <<>>
    /\ filtered_results' = <<>>
    /\ search_list_state' = None
    /\ UNCHANGED <<current_cantica, current_canto, cantica_list_state,
                   canto_list_state, verse_scroll, search_results,
                   context_canto, context_highlight_line>>

\* enter_context_view (tui.rs 243-252)
enter_context_view ==
    IF search_list_state # None
       /\ search_list_state[1] + 1 \in DOMAIN filtered_results
    THEN LET result == filtered_results[search_list_state[1] + 1]
         IN /\ context_canto' = Some(<<result.cantica, result.canto>>)
            /\ context_highlight_line' = Some(result.line)
            /\ mode' = "ContextView"
            /\ verse_scroll' = SaturatingSub(result.line, 10) % (U16Max + 1)
            /\ UNCHANGED <<current_cantica, current_canto, cantica_list_state,
                           canto_list_state, search_input, search_results,
                           filtered_results, search_list_state>>
    ELSE UNCHANGED appVars

\* variant of exit_context_view: the context target is kept
exit_context_view_keep ==
    /\ context_highlight_line' = None
    /\ mode' = "InteractiveSearch"
    /\ UNCHANGED <<current_cantica, current_canto, cantica_list_state,
                   canto_list_state, verse_scroll, search_input,
                   search_results, filtered_results, search_list_state,
                   context_canto>>

\* variant of exit_context_view: the search is entered afresh
exit_context_view_reset ==
    /\ context_canto' = None
    /\ context_highlight_line' = None
    /\ mode' = "InteractiveSearch"
    /\ filtered_results' = <<>>
    /\ search_list_state' = None
    /\ UNCHANGED <<current_cantica, current_canto, cantica_list_state,
                   canto_list_state, verse_scroll, search_input,
                   search_results>>

\* variant of exit_context_view: the view closes into Browse
exit_context_view_browse ==
    /\ context_canto' = None
    /\ context_highlight_line' = None
    /\ mode' = "Browse"
    /\ UNCHANGED <<current_cantica, current_canto, cantica_list_state,
                   canto_list_state, verse_scroll, search_input,
                   search_results, filtered_results, search_list_state>>

\* exit_context_view (tui.rs 254-258)
exit_context_view ==
    /\ context_canto' = None
    /\ context_highlight_line' = None
    /\ mode' = "InteractiveSearch"
    /\ UNCHANGED <<current_cantica, current_canto, cantica_list_state,
                   canto_list_state, verse_scroll, search_input,
                   search_results, filtered_results, search_list_state>>

\* variant of clear_search: the query is kept
clear_search_keep ==
    /\ search_results' = <<>>
    /\ filtered_results' = <<>>
    /\ search_list_state' = None
    /\ mode' = "Browse"
    /\ UNCHANGED <<current_cantica, current_canto, cantica_list_state,
                   canto_list_state, verse_scroll, search_input,
                   context_canto, context_highlight_line>>

\* clear_search (tui.rs 260-266)
clear_search ==
    /\ search_input' = <<>>
    /\ search_results' = <<>>
    /\ filtered_results' = <<>>
    /\ search_list_state' = None
    /\ mode' = "Browse"
    /\ UNCHANGED <<current_cantica, current_canto, cantica_list_state,
                   canto_list_state, verse_scroll, context_canto,
                   context_highlight_line>>

\* variant of next_search_result: the step past the last hit is not wrapped
next_search_result_unwrapped ==
    LET len == Len(filtered_results) IN
    IF len = 0 THEN UNCHANGED appVars
    ELSE /\ search_list_state' =
                IF search_list_state = None THEN Some(0)
                ELSE Some(search_list_state[1] + 1)
         /\ UNCHANGED <<current_cantica, current_canto, cantica_list_state,
                        canto_list_state, verse_scroll, search_input,
                        search_results, filtered_results, mode,
                        context_canto, context_highlight_line>>

\* next_search_result (tui.rs 268-285)
next_search_result ==
    LET len == Len(filtered_results) IN
    IF len = 0 THEN UNCHANGED appVars
    ELSE /\ search_list_state' =
                IF search_list_state = None THEN Some(0)
                ELSE IF search_list_state[1] >= len - 1 THEN Some(0)
                ELSE Some(search_list_state[1] + 1)
         /\ UNCHANGED <<current_cantica, current_canto, cantica_list_state,
                        canto_list_state, verse_scroll, search_input,
                        search_results, filtered_results, mode,
                        context_canto, context_highlight_line>>

\* variant of previous_search_result: the selection stops at the first hit
previous_search_result_clamped ==
    LET len == Len(filtered_results) IN
    IF len = 0 THEN UNCHANGED appVars
    ELSE /\ search_list_state' =
                IF search_list_state = None THEN Some(0)
                ELSE IF search_list_state[1] = 0 THEN Some(0)
                ELSE Some(search_list_state[1] - 1)
         /\ UNCHANGED <<current_cantica, current_canto, cantica_list_state,
                        canto_list_state, verse_scroll, search_input,
                        search_results, filtered_results, mode,
                        context_canto, context_highlight_line>>

\* previous_search_result (tui.rs 287-304)
previous_search_result ==
    LET len == Len(filtered_results) IN
    IF len = 0 THEN UNCHANGED appVars
    ELSE /\ search_list_state' =
                IF search_list_state = None THEN Some(0)
                ELSE IF search_list_state[1] = 0 THEN Some(len - 1)
                ELSE Some(search_list_state[1] - 1)
         /\ UNCHANGED <<current_cantica, current_canto, cantica_list_state,
                        canto_list_state, verse_scroll, search_input,
                        search_results, filtered_results, mode,
                        context_canto, context_highlight_line>>

-----------------------------------------------------------------------------
(* run_app (tui.rs 346-398): one action per arm of the key dispatch.       *)

KeyChars == {"q", "j", "k", "J", "K", "/", "."}
SpecialKeys == {"Esc", "Backspace", "Enter", "Up", "Down", "Left", "Right", "Tab"}
Keys == KeyChars \cup SpecialKeys

\* the loop reads a key while the session runs in the given mode
Reads(m) == running /\ mode = m

\* the key read is one of ks
Pressed(ks) == ks \cap Keys # {}

\* the offsets at which the scroll keys are explored: up to MaxScroll from
\* the bottom, and within MaxScroll of the top of the u16 range
MayScrollDown == verse_scroll < MaxScroll \/ verse_scroll >= U16Max - MaxScroll
MayScrollUp == verse_scroll <= MaxScroll \/ verse_scroll > U16Max - MaxScroll

\* what no arm of the dispatch touches
Frame ==
    /\ UNCHANGED <<commedia, cliVars>>
    /\ browse_scroll' = IF browse_scroll # None /\ mode = "Browse"
                        THEN Some(verse_scroll')
                        ELSE browse_scroll

\* ---- AppMode::Browse

KeyQuit ==
    /\ Reads("Browse")
    /\ Pressed({"q"})
    /\ UNCHANGED last_call
    /\ running' = FALSE
    /\ search_call' = "none"
    /\ UNCHANGED appVars /\ Frame

KeyPreviousCantica ==
    /\ Reads("Browse")
    /\ Pressed({"Left"})   \* 'h' | Left
    /\ last_call' = "previous_cantica"
    /\ previous_cantica
    /\ search_call' = "none"
    /\ UNCHANGED running /\ Frame

KeyNextCantica ==
    /\ Reads("Browse")
    /\ Pressed({"Right"})   \* 'l' | Right
    /\ last_call' = "next_cantica"
    /\ next_cantica
    /\ search_call' = "none"
    /\ UNCHANGED running /\ Frame

KeyNextCanto ==
    /\ Reads("Browse")
    /\ Pressed({"j", "Down"})
    /\ \E iter \in IterOrders(commedia) :
         /\ last_call' = "next_canto"
         /\ next_canto(iter)
         /\ search_call' = "none"
         /\ UNCHANGED running /\ Frame

KeyPreviousCanto ==
    /\ Reads("Browse")
    /\ Pressed({"k", "Up"})
    /\ \E iter \in IterOrders(commedia) :
         /\ last_call' = "previous_canto"
         /\ previous_canto(iter)
         /\ search_call' = "none"
         /\ UNCHANGED running /\ Frame

KeyScrollDown ==
    /\ Reads("Browse")
    /\ Pressed({"J"})
    /\ last_call' = "scroll_down"
    /\ MayScrollDown
    /\ scroll_down
    /\ search_call' = "none"
    /\ UNCHANGED running /\ Frame

KeyScrollUp ==
    /\ Reads("Browse")
    /\ Pressed({"K"})
    /\ last_call' = "scroll_up"
    /\ MayScrollUp
    /\ scroll_up
    /\ search_call' = "none"
    /\ UNCHANGED running /\ Frame

KeyEnterSearch ==
    /\ Reads("Browse")
    /\ Pressed({"/"})
    /\ last_call' = "enter_search_mode"
    /\ enter_search_mode
    /\ search_call' = "none"
    /\ UNCHANGED running /\ Frame

\* KeyCode::Enter in Browse (tui.rs 362-368)
KeyBrowseEnter ==
    /\ Reads("Browse")
    /\ Pressed({"Enter"})
    /\ \E iter \in IterOrders(commedia) :
         /\ last_call' = IF current_canto = None /\ canto_list_state # None
                        THEN "update_current_canto" ELSE last_call
         /\ current_canto' =
              IF current_canto = None /\ canto_list_state # None
              THEN update_current_canto(current_canto, canto_list_state,
                       iter[current_field(current_cantica)])
              ELSE current_canto
         /\ search_call' = "none"
         /\ UNCHANGED <<current_cantica, cantica_list_state, canto_list_state,
                        verse_scroll, search_input, search_results,
                        filtered_results, search_list_state, mode,
                        context_canto, context_highlight_line>>
         /\ UNCHANGED running /\ Frame

KeyBrowseOther ==
    /\ Reads("Browse")
    /\ Pressed(Keys \ {"q", "Left", "Right", "j", "Down", "k", "Up", "J", "K", "/", "Enter"})
    /\ UNCHANGED last_call
    /\ search_call' = "none"
    /\ UNCHANGED appVars /\ UNCHANGED running /\ Frame

\* ---- AppMode::InteractiveSearch

KeyClearSearch ==
    /\ Reads("InteractiveSearch")
    /\ Pressed({"Esc"})
    /\ last_call' = "clear_search"
    /\ clear_search
    /\ search_call' = "none"
    /\ UNCHANGED running /\ Frame

\* variant of KeyBackspace: the query is shortened and the ranked hits are
\* left as they are
KeyBackspaceNoSearch ==
    /\ Reads("InteractiveSearch")
    /\ Pressed({"Backspace"})
    /\ last_call' = "interactive_search"
    /\ search_input' = IF search_input = <<>> THEN <<>>
                       ELSE SubSeq(search_input, 1, Len(search_input) - 1)
    /\ search_call' = "skipped"
    /\ UNCHANGED <<current_cantica, current_canto, cantica_list_state,
                   canto_list_state, verse_scroll, search_results,
                   filtered_results, search_list_state, mode,
                   context_canto, context_highlight_line>>
    /\ UNCHANGED running /\ Frame

\* search_input.pop(); interactive_search()
KeyBackspace ==
    /\ Reads("InteractiveSearch")
    /\ Pressed({"Backspace"})
    /\ \E iter \in IterOrders(commedia) :
         /\ last_call' = "interactive_search"
         /\ search_input' = IF search_input = <<>> THEN <<>>
                            ELSE SubSeq(search_input, 1, Len(search_input) - 1)
         /\ interactive_search(search_input', iter)
         /\ UNCHANGED <<current_cantica, current_canto, cantica_list_state,
                        canto_list_state, verse_scroll, search_results,
                        context_canto, context_highlight_line>>
         /\ UNCHANGED running /\ Frame

KeyNextResult ==
    /\ Reads("InteractiveSearch")
    /\ Pressed({"Down", "j"})
    /\ last_call' = "next_search_result"
    /\ next_search_result
    /\ search_call' = "none"
    /\ UNCHANGED running /\ Frame

KeyPreviousResult ==
    /\ Reads("InteractiveSearch")
    /\ Pressed({"Up", "k"})
    /\ last_call' = "previous_search_result"
    /\ previous_search_result
    /\ search_call' = "none"
    /\ UNCHANGED running /\ Frame

KeyConfirm ==
    /\ Reads("InteractiveSearch")
    /\ Pressed({"Enter"})
    /\ last_call' = "enter_context_view"
    /\ enter_context_view
    /\ search_call' = "none"
    /\ UNCHANGED running /\ Frame

\* variant of KeyChar: 'j' and 'k' are appended like every other character
KeyCharAny ==
    /\ Reads("InteractiveSearch")
    /\ Len(search_input) < MaxQuery
    /\ \E c \in KeyChars : \E iter \in IterOrders(commedia) :
         /\ last_call' = "interactive_search"
         /\ search_input' = Append(search_input, c)
         /\ interactive_search(search_input', iter)
         /\ UNCHANGED <<current_cantica, current_canto, cantica_list_state,
                        canto_list_state, verse_scroll, search_results,
                        context_canto, context_highlight_line>>
         /\ UNCHANGED running /\ Frame

\* KeyCode::Char(c): search_input.push(c); interactive_search()
KeyChar ==
    /\ Reads("InteractiveSearch")
    /\ Len(search_input) < MaxQuery
    /\ \E c \in KeyChars \ {"j", "k"} : \E iter \in IterOrders(commedia) :
         /\ last_call' = "interactive_search"
         /\ search_input' = Append(search_input, c)
         /\ interactive_search(search_input', iter)
         /\ UNCHANGED <<current_cantica, current_canto, cantica_list_state,
                        canto_list_state, verse_scroll, search_results,
                        context_canto, context_highlight_line>>
         /\ UNCHANGED running /\ Frame

KeySearchOther ==
    /\ Reads("InteractiveSearch")
    /\ Pressed(Keys \ (KeyChars \cup {"Esc", "Backspace", "Down", "Up", "Enter"}))
    /\ UNCHANGED last_call
    /\ search_call' = "none"
    /\ UNCHANGED appVars /\ UNCHANGED running /\ Frame

\* ---- AppMode::ContextView

\* variant of KeyExitContext: 'q' and Esc end the session, as 'q' does in
\* Browse
KeyExitContextQuits ==
    /\ Reads("ContextView")
    /\ Pressed({"q", "Esc"})
    /\ UNCHANGED last_call
    /\ running' = FALSE
    /\ search_call' = "none"
    /\ UNCHANGED appVars /\ Frame

KeyExitContext ==
    /\ Reads("ContextView")
    /\ Pressed({"q", "Esc"})
    /\ last_call' = "exit_context_view"
    /\ exit_context_view
    /\ search_call' = "none"
    /\ UNCHANGED running /\ Frame

\* variant of KeyContextScrollDown: Down is dispatched as in Browse
KeyContextDownAsBrowse ==
    /\ Reads("ContextView")
    /\ Pressed({"J", "Down"})
    /\ \E iter \in IterOrders(commedia) :
         /\ last_call' = "next_canto"
         /\ next_canto(iter)
         /\ search_call' = "none"
         /\ UNCHANGED running /\ Frame

KeyContextScrollDown ==
    /\ Reads("ContextView")
    /\ Pressed({"J", "Down"})
    /\ last_call' = "scroll_down"
    /\ MayScrollDown
    /\ scroll_down
    /\ search_call' = "none"
    /\ UNCHANGED running /\ Frame

KeyContextScrollUp ==
    /\ Reads("ContextView")
    /\ Pressed({"K", "Up"})
    /\ last_call' = "scroll_up"
    /\ MayScrollUp
    /\ scroll_up
    /\ search_call' = "none"
    /\ UNCHANGED running /\ Frame

\* variant of KeyContextOther: any other key leaves the context view for
\* Browse
KeyContextOtherToBrowse ==
    /\ Reads("ContextView")
    /\ Pressed(Keys \ {"q", "Esc", "J", "Down", "K", "Up"})
    /\ UNCHANGED last_call
    /\ search_call' = "none"
    /\ mode' = "Browse"
    /\ UNCHANGED <<current_cantica, current_canto, cantica_list_state,
                   canto_list_state, verse_scroll, search_input,
                   search_results, filtered_results, search_list_state,
                   context_canto, context_highlight_line>>
    /\ UNCHANGED running /\ Frame

KeyContextOther ==
    /\ Reads("ContextView")
    /\ Pressed(Keys \ {"q", "Esc", "J", "Down", "K", "Up"})
    /\ UNCHANGED last_call
    /\ search_call' = "none"
    /\ UNCHANGED appVars /\ UNCHANGED running /\ Frame

-----------------------------------------------------------------------------
(* The documents of the interactive session.                               *)

SessionCanto1 ==
    <<Verse(1, <<"q", "J">>), Verse(2, <<"j">>), Verse(3, <<"K", "q">>)>>
SessionCanto2 ==
    <<Verse(1, <<"J", "/">>), Verse(12, <<"/", "q">>), Verse(65546, <<"K">>)>>
SessionCanto3 ==
    <<Verse(1, <<"Q", "k">>), Verse(2, <<"q", "/">>), Verse(65545, <<".">>)>>

\* as the fixture of the tests of tui.rs: two parts filled, Paradiso empty
SessionDoc ==
    [inferno    |-> Cantica("Inferno",
                       [k \in {1, 2} |->
                           Canto(k, IF k = 1 THEN SessionCanto1 ELSE SessionCanto2)]),
     purgatorio |-> Cantica("Purgatorio", CantosOf({1}, SessionCanto3)),
     paradiso   |-> Cantica("Paradiso", EmptyMap)]

SessionDocs == {SessionDoc, NewCommedia}

\* one canto of more lines than interactive_search keeps; every line number
\* is ten past a multiple of 2^16, so that every hit opens at scroll offset 0
LongCanto ==
    [l \in 1..(MaxResults + 1) |-> Verse(10 + 65536 * (l - 1), <<"q">>)]

LongDoc ==
    [inferno    |-> Cantica("Inferno", CantosOf({1}, LongCanto)),
     purgatorio |-> Cantica("Purgatorio", EmptyMap),
     paradiso   |-> Cantica("Paradiso", EmptyMap)]

Init ==
    /\ browse_scroll = None
    /\ commedia \in SessionDocs
    /\ CliStart
    /\ AppNew

InitLong ==
    /\ browse_scroll = None
    /\ commedia = LongDoc
    /\ CliStart
    /\ AppNew

Next ==
    \/ KeyQuit
    \/ KeyPreviousCantica
    \/ KeyNextCantica
    \/ KeyNextCanto
    \/ KeyPreviousCanto
    \/ KeyScrollDown
    \/ KeyScrollUp
    \/ KeyEnterSearch
    \/ KeyBrowseEnter
    \/ KeyBrowseOther
    \/ KeyClearSearch
    \/ KeyBackspace
    \/ KeyNextResult
    \/ KeyPreviousResult
    \/ KeyConfirm
    \/ KeyChar
    \/ KeySearchOther
    \/ KeyExitContext
    \/ KeyContextScrollDown
    \/ KeyContextScrollUp
    \/ KeyContextOther

Spec == Init /\ [][Next]_vars

\* the session in which the scroll offset of Browse is observed
InitScroll ==
    /\ commedia \in SessionDocs
    /\ CliStart
    /\ AppNew
    /\ browse_scroll = Some(0)

SpecScroll == InitScroll /\ [][Next]_vars

\* the session on the long document, driven by the keys of the search (no
\* arm of the browse navigation reads or writes the search state)
NextLong ==
    \/ KeyQuit
    \/ KeyEnterSearch
    \/ KeyClearSearch
    \/ KeyBackspace
    \/ KeyNextResult
    \/ KeyPreviousResult
    \/ KeyConfirm
    \/ KeyChar
    \/ KeySearchOther
    \/ KeyExitContext
    \/ KeyContextScrollDown
    \/ KeyContextScrollUp
    \/ KeyContextOther

SpecLong == InitLong /\ [][NextLong]_vars

\* the documents of the browse navigation: a part of MaxCanto + 1 sections
\* whose numbers are not consecutive, a part of one section and an empty
\* part, in each of the three arrangements
NavKeys == {2 * k - 1 : k \in 1..(MaxCanto + 1)}

NavDocs ==
    { MkCommedia(NavKeys, SessionCanto1, {2}, SessionCanto3, {}, <<>>),
      MkCommedia({}, <<>>, NavKeys, SessionCanto1, {2}, SessionCanto3),
      MkCommedia({2}, SessionCanto3, {}, <<>>, NavKeys, SessionCanto1) }

InitNav ==
    /\ browse_scroll = None
    /\ commedia \in NavDocs
    /\ CliStart
    /\ AppNew

\* the session driven by the keys of Browse that move the cursor
NextNav ==
    \/ KeyQuit
    \/ KeyPreviousCantica
    \/ KeyNextCantica
    \/ KeyNextCanto
    \/ KeyPreviousCanto
    \/ KeyScrollDown
    \/ KeyScrollUp
    \/ KeyBrowseEnter
    \/ KeyBrowseOther

SpecNav == InitNav /\ [][NextNav]_vars

-----------------------------------------------------------------------------
(* `duca canto CANTICA NUMBER` (main.rs 376-399) and the two lookups of    *)
(* App, applied by the frames that draw the current canto and the context  *)
(* canto.                                                                  *)

\* str::to_lowercase on the names the model uses
to_lowercase(s) ==
    CASE s \in {"Inferno", "INFERNO"} -> "inferno"
      [] s = "Purgatorio" -> "purgatorio"
      [] s = "Paradiso" -> "paradiso"
      [] OTHER -> s

\* what the canto command prints (the roman numeral of the heading is left
\* out: the heading is given by the part name and the canto number)
canto_command(c, n) ==
    LET l == to_lowercase(c)
    IN IF l \notin {"inferno", "purgatorio", "paradiso"}
       THEN Output("stderr", "invalid_cantica", "", 0, <<>>)
       ELSE LET cantica_data == commedia[l]
                canto == HashMapGet(cantica_data.cantos, n)
            IN IF canto # None
               THEN Output("stdout", "canto", cantica_data.name,
                           canto[1].number, canto[1].verses)
               ELSE Output("stdout", "not_found", cantica_data.name, n, <<>>)

CantoNames == {"inferno", "Inferno", "purgatorio", "Paradiso", "invalid"}
CantoNumbers == 0..(MaxCanto + 1)

\* every path of the command returns Ok(())
CantoCommand ==
    /\ pc = "start"
    /\ \E c \in CantoNames, n \in CantoNumbers :
         /\ cantica_arg' = c
         /\ number_arg' = n
         /\ output' = canto_command(c, n)
    /\ pc' = "canto_done"
    /\ UNCHANGED <<commedia, source, pattern, cantica_filter, results,
                   appVars, obsVars,
                   romanVars>>

\* `duca tui` draws a frame.  render_verse_display (tui.rs 465-510): the
\* verses of the current canto from the scroll offset on, or the help text
RenderVerseDisplay ==
    /\ pc \in {"start", "tui"}
    /\ pc' = "tui"
    /\ mode = "Browse"
    /\ LET canto == get_current_canto
       IN output' = IF canto # None
                    THEN Output("verse_display", "canto", current_cantica,
                                canto[1].number,
                                SubSeq(canto[1].verses, verse_scroll + 1,
                                       Len(canto[1].verses)))
                    ELSE Output("verse_display", "help", current_cantica, 0, <<>>)
    /\ UNCHANGED <<commedia, source, pattern, cantica_filter, results,
                   cantica_arg, number_arg, appVars, obsVars,
                   romanVars>>

\* render_context_view (tui.rs 571-620): the verses of the context canto,
\* or the text that no context is available
RenderContextView ==
    /\ pc \in {"start", "tui"}
    /\ pc' = "tui"
    /\ mode = "ContextView"
    /\ LET canto == get_context_canto
       IN output' = IF canto # None
                    THEN Output("context_view", "canto", context_canto[1][1],
                                canto[1].number,
                                SubSeq(canto[1].verses, verse_scroll + 1,
                                       Len(canto[1].verses)))
                    ELSE Output("context_view", "no_context", "", 0, <<>>)
    /\ UNCHANGED <<commedia, source, pattern, cantica_filter, results,
                   cantica_arg, number_arg, appVars, obsVars,
                   romanVars>>

\* the values a caller of the public fields of App gives the two lookups:
\* section numbers and part names that exist and that do not
LookupSections == {None} \cup {Some(n) : n \in CantoNumbers}
LookupContexts ==
    {None} \cup {Some(<<nm, n>>) :
                    nm \in {"Inferno", "Paradiso", "inferno", "Limbo"},
                    n \in {1, MaxCanto + 1}}

LookupDocs ==
    { MkCommedia(k[1], BodyA, k[2], BodyB, k[3], BodyC) : k \in KeyChoices }

InitLookup ==
    /\ browse_scroll = None
    /\ commedia \in LookupDocs
    /\ CliStart
    /\ current_cantica \in {"Inferno", "Purgatorio", "Paradiso"}
    /\ current_canto \in LookupSections
    /\ cantica_list_state = Some(0)
    /\ canto_list_state = None
    /\ verse_scroll = 0
    /\ search_input = <<>>
    /\ search_results = <<>>
    /\ filtered_results = <<>>
    /\ search_list_state = None
    /\ mode \in {"Browse", "ContextView"}
    /\ context_canto \in LookupContexts
    /\ context_highlight_line = None
    /\ running = TRUE
    /\ search_call = "none"
    /\ last_call = "none"

NextLookup ==
    \/ CantoCommand
    \/ RenderVerseDisplay
    \/ RenderContextView

LookupSpec == InitLookup /\ [][NextLookup]_vars

-----------------------------------------------------------------------------
(* The roman numerals of the canto headings: parse_cantica_content reads   *)
(* the number of a canto with roman_to_arabic and stores its numeral with  *)
(* roman_to_number (main.rs 206, 229-230).                                 *)

U8Max == 255

\* the match on the character in roman_to_arabic
RomanValue(c) ==
    CASE c = "I" -> 1
      [] c = "V" -> 5
      [] c = "X" -> 10
      [] c = "L" -> 50
      [] c = "C" -> 100
      [] c = "D" -> 500
      [] c = "M" -> 1000
      [] OTHER -> 0

\* variant of RomanLoop: every value is added
RECURSIVE RomanLoopAdditive(_, _, _, _)
RomanLoopAdditive(rom, i, result, prev_value) ==
    IF i = 0 THEN result
    ELSE RomanLoopAdditive(rom, i - 1, result + RomanValue(rom[i]),
                           RomanValue(rom[i]))

\* the loop over roman.chars().rev(), from the character at i down
RECURSIVE RomanLoop(_, _, _, _)
RomanLoop(rom, i, result, prev_value) ==
    IF i = 0 THEN result
    ELSE LET value == RomanValue(rom[i])
         IN RomanLoop(rom, i - 1,
                      IF value < prev_value THEN result - value
                      ELSE result + value,
                      value)

\* roman_to_arabic (main.rs 272-297): the sum is an i32, cast to u8
roman_to_arabic(rom) == RomanLoop(rom, Len(rom), 0, 0) % (U8Max + 1)

\* the table `values` of roman_to_number
RomanValues ==
    << <<1000, <<"M">>>>, <<900, <<"C", "M">>>>, <<500, <<"D">>>>,
       <<400, <<"C", "D">>>>, <<100, <<"C">>>>, <<90, <<"X", "C">>>>,
       <<50, <<"L">>>>, <<40, <<"X", "L">>>>, <<10, <<"X">>>>,
       <<9, <<"I", "X">>>>, <<5, <<"V">>>>, <<4, <<"I", "V">>>>,
       <<1, <<"I">>>> >>

\* the for loop over the table with its inner while loop
RECURSIVE NumeralLoop(_, _, _)
NumeralLoop(n, k, result) ==
    IF k > Len(RomanValues) THEN result
    ELSE IF n >= RomanValues[k][1]
         THEN NumeralLoop(n - RomanValues[k][1], k, result \o RomanValues[k][2])
         ELSE NumeralLoop(n, k + 1, result)

\* roman_to_number (main.rs 299-327)
roman_to_number(n) == NumeralLoop(n, 1, <<>>)

InitRoman ==
    /\ commedia = NewCommedia
    /\ source = JsonSource(Some(NewCommedia))
    /\ pc = "start"
    /\ pattern = <<>>
    /\ cantica_filter = None
    /\ results = <<>>
    /\ cantica_arg = ""
    /\ number_arg = 0
    /\ output = NoOutput
    /\ num \in 0..U8Max
    /\ roman = <<>>
    /\ arabic = 0
    /\ AppNew
    /\ browse_scroll = None

RomanToNumber ==
    /\ pc = "start"
    /\ roman' = roman_to_number(num)
    /\ pc' = "roman"
    /\ UNCHANGED <<commedia, source, pattern, cantica_filter, results,
                   cantica_arg, number_arg, output, num, arabic, appVars,
                   obsVars>>

RomanToArabic ==
    /\ pc = "roman"
    /\ arabic' = roman_to_arabic(roman)
    /\ pc' = "arabic"
    /\ UNCHANGED <<commedia, source, pattern, cantica_filter, results,
                   cantica_arg, number_arg, output, num, roman, appVars,
                   obsVars>>

NextRoman ==
    \/ RomanToNumber
    \/ RomanToArabic

RomanSpec == InitRoman /\ [][NextRoman]_vars

-----------------------------------------------------------------------------
(* Properties of search, checked under SearchSpec.                         *)

Letters == {"q", "Q", "h", "H", "j", "J", "k", "K"}
ToUpper(s) == [i \in 1..Len(s) |-> Upper(s[i])]
ToLower(s) == [i \in 1..Len(s) |-> Lower(s[i])]

\* the rank of a part by its name
PartRank(name) ==
    CASE name = "Inferno" -> 0 [] name = "Purgatorio" -> 1 [] name = "Paradiso" -> 2

\* hit a comes strictly before hit b by (part rank, canto number, line number)
KeyBefore(a, b) ==
    \/ PartRank(a[1]) < PartRank(b[1])
    \/ PartRank(a[1]) = PartRank(b[1]) /\ a[2] < b[2]
    \/ PartRank(a[1]) = PartRank(b[1]) /\ a[2] = b[2] /\ a[3] < b[3]

\* the parts a filter selects
PartsOf(filter) ==
    IF filter \in {Some("inferno"), Some("purgatorio"), Some("paradiso")}
    THEN {filter[1]}
    ELSE {"inferno", "purgatorio", "paradiso"}

\* the lines of the parts fs whose text satisfies Hit, as result tuples
LinesWhere(fs, Hit(_)) ==
    UNION { UNION { { <<commedia[f].name, k,
                        commedia[f].cantos[k].verses[i].line_number,
                        commedia[f].cantos[k].verses[i].text>> :
                      i \in { x \in DOMAIN commedia[f].cantos[k].verses :
                                Hit(commedia[f].cantos[k].verses[x].text) } } :
                    k \in DOMAIN commedia[f].cantos } :
            f \in fs }

\* some canto of part f stores its verses out of line-number order, and
\* both of two such verses are among the hits
UnorderedCantoHit(f) ==
    \E k \in DOMAIN commedia[f].cantos :
      LET vs == commedia[f].cantos[k].verses IN
        \E i, j \in DOMAIN vs :
          /\ i < j /\ vs[i].line_number > vs[j].line_number
          /\ \E a, b \in DOMAIN results :
               /\ results[a] = <<commedia[f].name, k, vs[i].line_number, vs[i].text>>
               /\ results[b] = <<commedia[f].name, k, vs[j].line_number, vs[j].text>>

\* C1: whatever the pattern, the filter, the iteration order of the canto
\* maps and the stored order of the verses, the hits search returns are
\* strictly ascending by (part rank, canto number, line number).
C1_SortedStrict ==
    pc = "done" =>
      \A i \in 1..(Len(results) - 1) : KeyBefore(results[i], results[i + 1])

C1_Witness ==
    /\ pc = "done"
    /\ \E f \in Range(CanticaFields) : UnorderedCantoHit(f)
    /\ \E i, j \in DOMAIN results :
         results[i][1] = results[j][1] /\ results[i][2] # results[j][2]
    /\ \E i, j \in DOMAIN results : results[i][1] # results[j][1]

\* C2: search returns exactly the lines of the candidate parts that the
\* compiled pattern matches, each once, as (part name, canto, line, text).
C2_ExactHits ==
    pc = "done" =>
      LET want == LinesWhere(PartsOf(cantica_filter),
                             LAMBDA t : IsMatch(SearchRegex(pattern), t))
      IN /\ Range(results) = want
         /\ Len(results) = Cardinality(want)

C2_Witness ==
    /\ pc = "done"
    /\ cantica_filter = Some("inferno")
    /\ Len(results) >= 2
    /\ \E i, j \in DOMAIN results : results[i][2] # results[j][2]
    /\ LinesWhere({"inferno"}, LAMBDA t : TRUE) # Range(results)
    /\ LinesWhere({"purgatorio", "paradiso"},
                  LAMBDA t : IsMatch(SearchRegex(pattern), t)) # {}

\* C3: search is deterministic: every iteration order of the canto maps
\* gives the sequence that the call made returned.
C3_Deterministic ==
    pc = "done" =>
      \A iter \in IterOrders(commedia) :
        search(commedia, pattern, cantica_filter, iter) = results

C3_Witness ==
    /\ pc = "done"
    /\ Cardinality(IterOrders(commedia)) > 1
    /\ \E i, j \in DOMAIN results :
         results[i][1] = results[j][1] /\ results[i][2] # results[j][2]

\* C4: for a pattern of plain letters and no filter, the upper-case and the
\* lower-case spelling of the pattern return the same hits.
C4_CaseInsensitive ==
    (pc = "done" /\ cantica_filter = None /\ Range(pattern) \subseteq Letters) =>
      \A iter \in IterOrders(commedia) :
        /\ search(commedia, ToUpper(pattern), None, iter) = results
        /\ search(commedia, ToLower(pattern), None, iter) = results

C4_Witness ==
    /\ pc = "done" /\ cantica_filter = None
    /\ pattern # <<>> /\ Range(pattern) \subseteq Letters
    /\ ToUpper(pattern) # pattern
    /\ \E i, j \in DOMAIN results :
         /\ IsSubstring(ToUpper(pattern), results[i][4])
         /\ IsSubstring(ToLower(pattern), results[j][4])

\* C5: search never fails: a pattern that is no valid regular expression
\* is matched as the literal string it spells, meta characters included.
C5_NeverFails ==
    /\ pc # "panic"
    /\ (pc = "done" /\ ~RegexNew(<<"(", "?", "i", ")">> \o pattern).ok) =>
         Range(results) = LinesWhere(PartsOf(cantica_filter),
                                     LAMBDA t : IsSubstring(pattern, t))

C5_Witness ==
    /\ pc = "done"
    /\ ~RegexNew(<<"(", "?", "i", ")">> \o pattern).ok
    /\ "." \in Range(pattern)
    /\ results # <<>>
    /\ \E t \in {<<"(", "q">>} :
         LinesWhere(PartsOf(cantica_filter), LAMBDA u : u = t) # {}

\* C6: a filter naming one of the three parts narrows: the filtered hits
\* are at most as many as the unfiltered ones, all carry that part's name,
\* and they are the unfiltered hits restricted to that part.
C6_FilterNarrows ==
    (pc = "done" /\ cantica_filter \in {Some("inferno"), Some("purgatorio"),
                                        Some("paradiso")}) =>
      \A iter \in IterOrders(commedia) :
        LET all == search(commedia, pattern, None, iter)
            name == commedia[cantica_filter[1]].name
            OfPart(r) == r[1] = name
        IN /\ Len(results) <= Len(all)
           /\ \A i \in DOMAIN results : results[i][1] = name
           /\ results = SelectSeq(all, OfPart)

C6_Witness ==
    /\ pc = "done"
    /\ cantica_filter = Some("purgatorio")
    /\ Len(results) >= 2
    /\ \E iter \in IterOrders(commedia) :
         LET all == search(commedia, pattern, None, iter)
         IN /\ Len(all) > Len(results)
            /\ all[1][1] = "Inferno" /\ all[Len(all)][1] = "Paradiso"

-----------------------------------------------------------------------------
(* Properties of the interactive session.                                  *)

\* C7 (under SpecLong): the ranked-hit list never holds more than 50
\* entries, however many lines the search matched.
C7_FuzzyCap == Len(filtered_results) <= 50

C7_Witness ==
    /\ mode = "InteractiveSearch"
    /\ Len(filtered_results) = 50
    /\ \E iter \in IterOrders(commedia) :
         Len(search(commedia, search_input, None, iter)) > 50

\* C8: in InteractiveSearch with an empty query the ranked-hit list is empty
\* and no hit is selected, and the step that left the query empty did not
\* call search.
C8_EmptyQuery ==
    (mode = "InteractiveSearch" /\ search_input = <<>>) =>
      /\ filtered_results = <<>>
      /\ search_list_state = None
      /\ search_call # "searched"

C8_Witness ==
    /\ mode = "InteractiveSearch" /\ search_input = <<>>
    /\ search_call = "skipped"
    /\ commedia = SessionDoc

\* C9: the ranked-hit list is sorted by non-increasing score and holds only
\* hits the fuzzy matcher accepts for the query, each with the score the
\* matcher gave it.
C9_RankedByScore ==
    /\ \A i \in 1..(Len(filtered_results) - 1) :
         filtered_results[i].score >= filtered_results[i + 1].score
    /\ \A i \in DOMAIN filtered_results :
         fuzzy_match(filtered_results[i].text, search_input)
           = Some(filtered_results[i].score)

C9_Witness ==
    /\ mode = "InteractiveSearch"
    /\ Len(filtered_results) >= 2
    /\ filtered_results[1].score > filtered_results[Len(filtered_results)].score
    /\ filtered_results[1].canto > filtered_results[2].canto
    /\ \E iter \in IterOrders(commedia) :
         Len(search(commedia, search_input, None, iter)) > Len(filtered_results)

\* the part after / before a part in the cycle Inferno, Purgatorio, Paradiso
PartAfter(name) ==
    CASE name = "Inferno" -> "Purgatorio"
      [] name = "Purgatorio" -> "Paradiso"
      [] name = "Paradiso" -> "Inferno"
PartBefore(name) ==
    CASE name = "Inferno" -> "Paradiso"
      [] name = "Purgatorio" -> "Inferno"
      [] name = "Paradiso" -> "Purgatorio"

\* C10: next_cantica moves the selected part one step along the cycle
\* Inferno -> Purgatorio -> Paradiso -> Inferno and previous_cantica one step
\* back, so three next_cantica return to the part they started from and each
\* of the two undoes the other; the selected index follows the part.
C10_CyclicParts ==
    [][ /\ KeyNextCantica =>
             /\ current_cantica' = PartAfter(current_cantica)
             /\ PartAfter(PartAfter(current_cantica')) = current_cantica
             /\ PartBefore(current_cantica') = current_cantica
        /\ KeyPreviousCantica =>
             /\ current_cantica' = PartBefore(current_cantica)
             /\ PartAfter(current_cantica') = current_cantica
        /\ (KeyNextCantica \/ KeyPreviousCantica) =>
             current_cantica' = update_current_cantica(cantica_list_state')
      ]_vars

C10_Witness ==
    /\ mode = "Browse"
    /\ current_cantica = "Paradiso"
    /\ cantica_list_state = Some(2)

-----------------------------------------------------------------------------
(* Properties of the browse cursor.                                        *)

\* the section numbers of the selected part
SectionKeys == DOMAIN get_current_cantica(current_cantica).cantos

\* some section is selected and resolved
SectionSelected == canto_list_state # None /\ current_canto # None

\* C11: after next_cantica or previous_cantica no section is selected:
\* canto_list_state and current_canto are both none, whatever they were.
C11_PartChangeClearsSection ==
    last_call \in {"next_cantica", "previous_cantica"} =>
        (canto_list_state = None /\ current_canto = None)

\* a section is selected in a part reached by a part change, and the next
\* key is read in Browse
C11_Witness ==
    /\ Reads("Browse")
    /\ current_cantica = "Purgatorio"
    /\ canto_list_state = Some(0)
    /\ current_canto = Some(1)

\* C12: after next_cantica or previous_cantica the scroll offset is 0,
\* whatever it was before.
C12_PartChangeResetsScroll ==
    [][ (KeyNextCantica \/ KeyPreviousCantica) => verse_scroll' = 0 ]_vars

LeastOf(S) == CHOOSE x \in S : \A y \in S : x <= y
GreatestOf(S) == CHOOSE x \in S : \A y \in S : x >= y

\* the next-larger number of K after k, the smallest after the largest
NextSection(K, k) ==
    IF {x \in K : x > k} = {} THEN LeastOf(K) ELSE LeastOf({x \in K : x > k})

\* the next-smaller number of K before k, the largest before the smallest
PreviousSection(K, k) ==
    IF {x \in K : x < k} = {} THEN GreatestOf(K) ELSE GreatestOf({x \in K : x < k})

\* n steps of NextSection from k
RECURSIVE NextSections(_, _, _)
NextSections(K, k, n) ==
    IF n = 0 THEN k ELSE NextSections(K, NextSection(K, k), n - 1)

\* the ordinal of k in the ascending sequence of K, counted from 0
Ordinal(K, k) == Cardinality({x \in K : x < k})

\* C13 (under SpecNav): in a part of N >= 1 sections, next_canto moves a
\* selected section to the next-larger number and wraps from the largest to
\* the smallest, previous_canto moves to the next-smaller and wraps from the
\* smallest to the largest, N steps of next_canto lead back to the section
\* they started from, after either call the resolved section is the one at
\* the selected ordinal of the ascending numbers, and the scroll offset is 0.
C13_CyclicSections ==
    [][ SectionKeys # {} =>
          /\ (KeyNextCanto \/ KeyPreviousCanto) =>
                /\ verse_scroll' = 0
                /\ canto_list_state' # None /\ current_canto' # None
                /\ current_canto'[1] \in SectionKeys
                /\ canto_list_state'[1] = Ordinal(SectionKeys, current_canto'[1])
          /\ (KeyNextCanto /\ SectionSelected) =>
                /\ current_canto' = Some(NextSection(SectionKeys, current_canto[1]))
                /\ NextSections(SectionKeys, current_canto[1],
                                Cardinality(SectionKeys)) = current_canto[1]
          /\ (KeyPreviousCanto /\ SectionSelected) =>
                /\ current_canto' =
                       Some(PreviousSection(SectionKeys, current_canto[1]))
                /\ NextSection(SectionKeys, current_canto'[1]) = current_canto[1]
      ]_vars

\* the largest of at least three sections is selected, so that next_canto
\* has stepped up to it and wraps on the next key
C13_Witness ==
    /\ Reads("Browse")
    /\ Cardinality(SectionKeys) >= 3
    /\ SectionSelected
    /\ current_canto = Some(GreatestOf(SectionKeys))
    /\ canto_list_state = Some(Cardinality(SectionKeys) - 1)
    /\ verse_scroll = 0

\* C14: on a part without sections next_canto and previous_canto leave the
\* section selection none: canto_list_state and current_canto are none
\* after the call.
C14_EmptyPartStaysNone ==
    [][ (SectionKeys = {} /\ (KeyNextCanto \/ KeyPreviousCanto)) =>
            (canto_list_state' = None /\ current_canto' = None) ]_vars

\* a key that calls scroll_down / scroll_up, in Browse or in ContextView
ScrollDownStep == KeyScrollDown \/ KeyContextScrollDown
ScrollUpStep == KeyScrollUp \/ KeyContextScrollUp

\* C15, as stated: the scroll offset is never negative, scroll_up leaves 0
\* at 0 and otherwise decrements by exactly 1, and scroll_down increments by
\* exactly 1.
C15_ScrollExact ==
    [][ /\ verse_scroll' >= 0
        /\ ScrollUpStep =>
             verse_scroll' = IF verse_scroll = 0 THEN 0 ELSE verse_scroll - 1
        /\ ScrollDownStep => verse_scroll' = verse_scroll + 1 ]_vars

\* C15, amended: the scroll offset is never negative, scroll_up leaves 0 at
\* 0 and otherwise decrements by exactly 1, and scroll_down increments by
\* exactly 1 except at 65535, the largest u16, where it leaves the offset.
C15_ScrollSaturating ==
    [][ /\ verse_scroll' >= 0
        /\ ScrollUpStep =>
             verse_scroll' = IF verse_scroll = 0 THEN 0 ELSE verse_scroll - 1
        /\ ScrollDownStep =>
             verse_scroll' = IF verse_scroll = U16Max THEN U16Max
                             ELSE verse_scroll + 1 ]_vars

\* scroll_down was called at the top of the range, which scroll_up had left
\* and scroll_down reached again
C15_Witness ==
    /\ mode = "ContextView"
    /\ last_call = "scroll_down"
    /\ verse_scroll = U16Max

-----------------------------------------------------------------------------
(* Properties of the modes and of the interactive search.                  *)

\* C16: the session starts in Browse; a step that enters ContextView starts
\* in InteractiveSearch, and a step that leaves ContextView ends in
\* InteractiveSearch, never in Browse.
C16_ModeReachability ==
    /\ mode = "Browse"
    /\ [][ /\ (mode # "ContextView" /\ mode' = "ContextView") =>
                mode = "InteractiveSearch"
           /\ (mode = "ContextView" /\ mode' # "ContextView") =>
                mode' = "InteractiveSearch" ]_vars

\* the context view was opened and has been left again
C16_Witness ==
    /\ last_call = "exit_context_view"
    /\ mode = "InteractiveSearch"
    /\ context_canto = None
    /\ filtered_results # <<>>

\* C17: '/' in Browse always leads to InteractiveSearch with an empty query,
\* an empty ranked-hit list and no hit selected.
C17_EnterSearchClears ==
    last_call = "enter_search_mode" =>
        /\ mode = "InteractiveSearch"
        /\ search_input = <<>>
        /\ filtered_results = <<>>
        /\ search_list_state = None

\* the search is entered again after an earlier search: the offset that the
\* context view of a hit left behind is still there
C17_Witness ==
    /\ last_call = "enter_search_mode"
    /\ mode = "InteractiveSearch"
    /\ search_input = <<>> /\ filtered_results = <<>>
    /\ verse_scroll = U16Max

\* the lines of the whole document that the search for q finds and the
\* fuzzy matcher accepts for q
FuzzyHit(q, text) ==
    IsMatch(SearchRegex(q), text) /\ fuzzy_match(text, q) # None
FuzzyHits(q) ==
    LinesWhere(Range(CanticaFields), LAMBDA text : FuzzyHit(q, text))

\* list and sel are what a query q must show: nothing for a blank query,
\* else every line of FuzzyHits(q) once, with its score, best score first,
\* and the first hit selected if there is one
Recomputed(q, list, sel) ==
    /\ IF TrimIsEmpty(q) THEN list = <<>>
       ELSE /\ {<<list[i].cantica, list[i].canto, list[i].line, list[i].text>> :
                  i \in DOMAIN list} = FuzzyHits(q)
            /\ Len(list) = Cardinality(FuzzyHits(q))
            /\ \A i \in DOMAIN list :
                 Some(list[i].score) = fuzzy_match(list[i].text, q)
            /\ \A i \in 1..(Len(list) - 1) : list[i].score >= list[i + 1].score
    /\ sel = IF list = <<>> THEN None ELSE Some(0)

\* C18: a character key in InteractiveSearch appends the character to the
\* query and Backspace removes the last character; in the same step the
\* ranked-hit list is recomputed from the new query, and the first hit is
\* selected if the new list has one, none otherwise.
C18_QueryEditRecomputes ==
    [][ /\ KeyChar =>
             \E c \in KeyChars : search_input' = Append(search_input, c)
        /\ KeyBackspace =>
             search_input' = SubSeq(search_input, 1, Len(search_input) - 1)
        /\ (KeyChar \/ KeyBackspace) =>
             /\ Recomputed(search_input', filtered_results', search_list_state')
             /\ search_call' # "none" ]_vars

\* the query was edited and the new query found several hits, of which the
\* first is selected
C18_Witness ==
    /\ last_call = "interactive_search"
    /\ search_call = "searched"
    /\ mode = "InteractiveSearch"
    /\ search_input # <<>>
    /\ Len(filtered_results) >= 3
    /\ search_list_state = Some(0)

\* C19: Down / Up in InteractiveSearch move the hit selection cyclically:
\* next_search_result steps to the next index and from the last to 0,
\* previous_search_result steps back and from 0 to the last, so that the
\* one undoes the other; on an empty list both leave the selection none;
\* neither changes the list or the query.
C19_CyclicHits ==
    [][ LET len == Len(filtered_results) IN
        /\ (KeyNextResult \/ KeyPreviousResult) =>
             /\ filtered_results' = filtered_results
             /\ search_input' = search_input
             /\ len = 0 => (search_list_state = None /\ search_list_state' = None)
        /\ (KeyNextResult /\ len > 0) =>
             /\ search_list_state # None
             /\ search_list_state' = Some((search_list_state[1] + 1) % len)
        /\ (KeyPreviousResult /\ len > 0) =>
             /\ search_list_state # None
             /\ search_list_state' = Some((search_list_state[1] + len - 1) % len)
             /\ (search_list_state'[1] + 1) % len = search_list_state[1]
      ]_vars

\* previous_search_result has wrapped from the first of at least three hits
\* to the last
C19_Witness ==
    /\ last_call = "previous_search_result"
    /\ Len(filtered_results) >= 3
    /\ search_list_state = Some(Len(filtered_results) - 1)

\* C20: Enter in InteractiveSearch with a hit h selected opens ContextView
\* on (h.cantica, h.canto) with highlight line h.line and scroll offset
\* max(0, h.line - 10); with no hit selected it changes nothing.
C20_ConfirmOpensContext ==
    [][ KeyConfirm =>
          IF search_list_state # None
             /\ search_list_state[1] + 1 \in DOMAIN filtered_results
          THEN LET h == filtered_results[search_list_state[1] + 1] IN
               /\ mode' = "ContextView"
               /\ context_canto' = Some(<<h.cantica, h.canto>>)
               /\ context_highlight_line' = Some(h.line)
               /\ verse_scroll' = IF h.line >= 10 THEN h.line - 10 ELSE 0
          ELSE /\ UNCHANGED appVars
               /\ mode' = "InteractiveSearch" ]_vars

-----------------------------------------------------------------------------
(* Properties of leaving the search and of the frame of each command.      *)

\* C21: Esc in InteractiveSearch always leads to Browse with the whole
\* search state cleared: empty query, empty ranked-hit list, empty
\* search_results and no hit selected.
C21_CancelClearsSearch ==
    last_call = "clear_search" =>
        /\ mode = "Browse"
        /\ search_input = <<>>
        /\ filtered_results = <<>>
        /\ search_results = <<>>
        /\ search_list_state = None

\* the search was left by Esc after a hit of it had been opened in the
\* context view (whose offset is still there)
C21_Witness ==
    /\ last_call = "clear_search"
    /\ mode = "Browse"
    /\ verse_scroll = U16Max

\* the search state that the context view must not touch
searchState == <<search_input, filtered_results, search_list_state>>

\* C22: Esc or 'q' in ContextView returns to InteractiveSearch with the
\* query, the ranked-hit list and the selected hit as they were when
\* ContextView was entered: no step that enters, stays in or leaves
\* ContextView changes them or runs the search.
C22_ExitKeepsSearch ==
    [][ /\ (mode = "ContextView" \/ mode' = "ContextView") =>
             (UNCHANGED searchState /\ search_call' = "none")
        /\ KeyExitContext => mode' = "InteractiveSearch" ]_vars

\* the context view of a hit other than the first was left, after scrolling,
\* and the hit is still selected in the list
C22_Witness ==
    /\ last_call = "exit_context_view"
    /\ mode = "InteractiveSearch"
    /\ search_input # <<>>
    /\ Len(filtered_results) >= 2
    /\ search_list_state # None /\ search_list_state # Some(0)

\* C23: J / Down / K / Up in ContextView change only the scroll offset:
\* the mode, the context target, the highlight line, the query, the
\* ranked-hit list, the hit selection and the Browse selection stay.
C23_ContextScrollFrame ==
    [][ (KeyContextScrollDown \/ KeyContextScrollUp) =>
          UNCHANGED <<mode, context_canto, context_highlight_line,
                      search_input, search_results, filtered_results,
                      search_list_state, current_cantica, current_canto,
                      cantica_list_state, canto_list_state, commedia,
                      running>> ]_vars

\* the context view was scrolled away from the offset it opened at
C23_Witness ==
    /\ mode = "ContextView"
    /\ last_call \in {"scroll_down", "scroll_up"}
    /\ context_highlight_line # None
    /\ verse_scroll # SaturatingSub(context_highlight_line[1], 10) % (U16Max + 1)

\* a key of Browse that moves the cursor
BrowseNavigation ==
    \/ KeyPreviousCantica \/ KeyNextCantica
    \/ KeyNextCanto \/ KeyPreviousCanto
    \/ KeyScrollDown \/ KeyScrollUp

\* C24: the navigation keys of Browse change only the cursor (part,
\* section, scroll offset): the mode stays Browse and the query, the lists
\* of hits, the hit selection, the context target and the highlight stay.
C24_BrowseNavigationFrame ==
    [][ BrowseNavigation =>
          /\ mode' = "Browse"
          /\ UNCHANGED <<search_input, search_results, filtered_results,
                         search_list_state, context_canto,
                         context_highlight_line, commedia, running>> ]_vars

\* Browse was scrolled after a search excursion (the offset is the one a
\* context view left), with a section of the second part selected
C24_Witness ==
    /\ mode = "Browse"
    /\ last_call = "scroll_up"
    /\ verse_scroll = U16Max - 1
    /\ current_cantica = "Purgatorio"
    /\ current_canto # None

-----------------------------------------------------------------------------
(* Properties of the dispatch and of the lookups.                          *)

\* the arms of the dispatch that call a method of App or end the session
BrowseCommand ==
    \/ KeyQuit \/ BrowseNavigation \/ KeyEnterSearch \/ KeyBrowseEnter

SearchModeCommand ==
    \/ KeyClearSearch \/ KeyBackspace \/ KeyNextResult \/ KeyPreviousResult
    \/ KeyConfirm \/ KeyChar

ContextCommand ==
    \/ KeyExitContext \/ KeyContextScrollDown \/ KeyContextScrollUp

\* the catch-all arms of the three modes
IgnoredKey == KeyBrowseOther \/ KeySearchOther \/ KeyContextOther

\* C25: the dispatch is total: while the session runs the mode is one of
\* the three, a key without a meaning in the mode is always accepted, and
\* a step of the loop that is not made by a command of the mode leaves the
\* document, the whole state of App and the running flag unchanged.
C25_TotalDispatch ==
    /\ [](running => /\ mode \in {"Browse", "InteractiveSearch", "ContextView"}
                     /\ ENABLED IgnoredKey)
    /\ [][ ~(BrowseCommand \/ SearchModeCommand \/ ContextCommand) =>
             UNCHANGED <<commedia, appVars, running>> ]_vars

\* a key without a meaning was read in the interactive search after the
\* query was typed: the observer of the search is reset while the last
\* method called is still interactive_search
C25_Witness ==
    /\ running
    /\ mode = "InteractiveSearch"
    /\ last_call = "interactive_search"
    /\ search_call = "none"
    /\ search_input # <<>>
    /\ filtered_results # <<>>

\* the document was handed to a command
Loaded == pc \in {"start", "done", "panic", "canto_done", "tui"}

KeysOfPart(nm) ==
    CASE nm = "Inferno" -> DOMAIN commedia.inferno.cantos
      [] nm = "Purgatorio" -> DOMAIN commedia.purgatorio.cantos
      [] nm = "Paradiso" -> DOMAIN commedia.paradiso.cantos
      [] OTHER -> {}

\* the current section does not exist in the current part
CurrentMissing ==
    current_canto = None \/ current_canto[1] \notin KeysOfPart(current_cantica)

\* the context target names no part, or a section the part does not hold
ContextMissing ==
    context_canto = None \/ context_canto[1][2] \notin KeysOfPart(context_canto[1][1])

-----------------------------------------------------------------------------
(* Further properties of search, checked under SearchSpec.                 *)

\* Regex::new rejects the pattern as a case-insensitive regular expression:
\* search matches it as an escaped literal
OnFallbackPath(pat) == ~RegexNew(<<"(", "?", "i", ")">> \o pat).ok

\* C28: on the literal fallback path the upper-case and the lower-case
\* spelling of the pattern return the hits of the pattern given.
C28_FallbackCaseInsensitive ==
    (pc = "done" /\ OnFallbackPath(pattern)) =>
      \A iter \in IterOrders(commedia) :
        /\ OnFallbackPath(ToUpper(pattern)) /\ OnFallbackPath(ToLower(pattern))
        /\ search(commedia, ToUpper(pattern), cantica_filter, iter) = results
        /\ search(commedia, ToLower(pattern), cantica_filter, iter) = results

\* C29: a filter name that is not exactly "inferno", "purgatorio" or
\* "paradiso" (a capitalised or an unknown name) is no filter: the call
\* returns what the call without a filter returns.
C29_UnknownFilterIsNone ==
    (pc = "done" /\ cantica_filter \notin {None, Some("inferno"),
                                           Some("purgatorio"), Some("paradiso")}) =>
      \A iter \in IterOrders(commedia) :
        results = search(commedia, pattern, None, iter)

\* a search filtered by "Inferno" returned hits of the first and of the
\* last part
C29_Witness ==
    /\ pc = "done"
    /\ cantica_filter = Some("Inferno")
    /\ Len(results) >= 2
    /\ results[1][1] = "Inferno"
    /\ results[Len(results)][1] = "Paradiso"

-----------------------------------------------------------------------------
(* A further property of the ranked hits, checked under Spec.              *)

\* ranked hit a comes strictly before ranked hit b by (part rank, canto
\* number, line number)
RankedKeyBefore(a, b) ==
    KeyBefore(<<a.cantica, a.canto, a.line, a.text>>,
              <<b.cantica, b.canto, b.line, b.text>>)

\* C30: of two ranked hits with the same score, the one that is smaller by
\* (part rank, canto number, line number) comes first in the list.
C30_TiesKeepSearchOrder ==
    \A i, j \in DOMAIN filtered_results :
       (i < j /\ filtered_results[i].score = filtered_results[j].score) =>
          RankedKeyBefore(filtered_results[i], filtered_results[j])

\* the list holds hits of equal score from two parts, and below them a hit
\* of a lower score that the search found earlier
C30_Witness ==
    \E i, j, k \in DOMAIN filtered_results :
       /\ i < j /\ j < k
       /\ filtered_results[i].score = filtered_results[j].score
       /\ filtered_results[i].cantica # filtered_results[j].cantica
       /\ filtered_results[k].score < filtered_results[j].score
       /\ RankedKeyBefore(filtered_results[k], filtered_results[j])

-----------------------------------------------------------------------------
(* Invariants of the session, checked under Spec.                          *)

\* the selected ordinal names no section of the selected part
OrdinalOutOfRange ==
    canto_list_state # None /\ canto_list_state[1] >= Cardinality(SectionKeys)

\* C31: the resolved section is none, or it is a section number of the
\* selected part and the one at the selected ordinal of the part's
\* ascending numbers; with an ordinal out of range it is none.
C31_ResolvedSection ==
    /\ current_canto # None =>
          /\ current_canto[1] \in SectionKeys
          /\ canto_list_state # None
          /\ canto_list_state[1] = Ordinal(SectionKeys, current_canto[1])
    /\ OrdinalOutOfRange => current_canto = None

\* an ordinal was selected in a part without sections, in a document whose
\* first part has sections
C31_Witness ==
    /\ OrdinalOutOfRange
    /\ current_cantica # "Inferno"
    /\ last_call \in {"next_canto", "previous_canto"}
    /\ DOMAIN commedia.inferno.cantos # {}

\* C32: the ranked-hit list is the one interactive_search computes for the
\* query as it is now (search without a filter, fuzzy scores, ranking, cut
\* at 50), under every iteration order of the canto maps; it is empty for a
\* blank query and in Browse.
C32_CacheConsistent ==
    /\ \A iter \in IterOrders(commedia) :
         filtered_results = IF TrimIsEmpty(search_input) THEN <<>>
                            ELSE RankedHits(search_input, iter)
    /\ mode = "Browse" => (search_input = <<>> /\ filtered_results = <<>>)

\* the hits of a one-character query are shown, and a query one character
\* longer has hits too, but other ones
C32_Witness ==
    /\ mode = "InteractiveSearch"
    /\ last_call = "interactive_search"
    /\ Len(search_input) = 1
    /\ Len(filtered_results) >= 2
    /\ \E c \in KeyChars, iter \in IterOrders(commedia) :
         /\ RankedHits(Append(search_input, c), iter) # filtered_results
         /\ RankedHits(Append(search_input, c), iter) # <<>>

\* C33: the hit selection is none exactly when the ranked-hit list is
\* empty, and otherwise an index below the length of the list; so Enter in
\* InteractiveSearch on a list that is not empty has entered ContextView
\* (and on an empty list it has not).
C33_SelectionInRange ==
    /\ search_list_state = None <=> filtered_results = <<>>
    /\ search_list_state # None =>
          (search_list_state[1] >= 0 /\ search_list_state[1] < Len(filtered_results))
    /\ last_call = "enter_context_view" =>
          (mode = "ContextView" <=> filtered_results # <<>>)

\* Enter opened the context view of the last of at least three hits
C33_Witness ==
    /\ last_call = "enter_context_view"
    /\ mode = "ContextView"
    /\ Len(filtered_results) >= 3
    /\ search_list_state = Some(Len(filtered_results) - 1)

\* C34: the context target and the highlight line are set exactly in
\* ContextView, and there the target resolves to a canto of the document
\* that holds a verse with the highlight line as its line number.
C34_ContextTarget ==
    /\ context_canto # None <=> mode = "ContextView"
    /\ context_highlight_line # None <=> mode = "ContextView"
    /\ mode = "ContextView" =>
          /\ get_context_canto # None
          /\ get_context_canto[1].number = context_canto[1][2]
          /\ \E i \in DOMAIN get_context_canto[1].verses :
                get_context_canto[1].verses[i].line_number = context_highlight_line[1]

\* the context view shows a canto of the second part, while the Browse
\* cursor is in the first part, and the highlight line is not the first
\* line stored
C34_Witness ==
    /\ mode = "ContextView"
    /\ context_canto # None
    /\ context_canto[1][1] = "Purgatorio"
    /\ current_cantica = "Inferno"
    /\ get_context_canto # None
    /\ get_context_canto[1].verses[1].line_number # context_highlight_line[1]

\* C35: back in Browse the scroll offset is the one Browse had when it was
\* left: an excursion through the search and the context view does not
\* change it.
C35_BrowseScrollSurvives ==
    (mode = "Browse" /\ browse_scroll # None) => Some(verse_scroll) = browse_scroll

\* C36: the context view opened on a hit at line L >= 10 has the scroll
\* offset L - 10, whatever the size of L.
C36_OffsetNeverWraps ==
    (last_call = "enter_context_view" /\ mode = "ContextView"
        /\ context_highlight_line[1] >= 10) =>
       verse_scroll = context_highlight_line[1] - 10

\* C37: the query never holds 'j' or 'k': a step of InteractiveSearch never
\* appends either of them, the keys 'j' and 'k' leave the query as it is
\* and move the hit selection as Down and Up do, and a step of the
\* character arm appends one of the other characters.
C37_NoJKInQuery ==
    /\ []("j" \notin Range(search_input) /\ "k" \notin Range(search_input))
    /\ [][ /\ mode = "InteractiveSearch" =>
                search_input' \notin {Append(search_input, "j"),
                                      Append(search_input, "k")}
           /\ (KeyNextResult \/ KeyPreviousResult) => UNCHANGED search_input
           /\ KeyChar => \E c \in KeyChars \ {"j", "k"} :
                            search_input' = Append(search_input, c) ]_vars

\* the query holds 'J' and 'q', typed in InteractiveSearch, and a key that
\* moves the hit selection was read after them
C37_Witness ==
    /\ mode = "InteractiveSearch"
    /\ last_call \in {"next_search_result", "previous_search_result"}
    /\ "J" \in Range(search_input) /\ "q" \in Range(search_input)

-----------------------------------------------------------------------------
(* The roman numerals, checked under RomanSpec.                            *)

\* the standard subtractive numeral of n < 400, digit by digit
RomanOnes == <<<<"I">>, <<"I", "I">>, <<"I", "I", "I">>, <<"I", "V">>, <<"V">>,
               <<"V", "I">>, <<"V", "I", "I">>, <<"V", "I", "I", "I">>,
               <<"I", "X">>>>
RomanTens == <<<<"X">>, <<"X", "X">>, <<"X", "X", "X">>, <<"X", "L">>, <<"L">>,
               <<"L", "X">>, <<"L", "X", "X">>, <<"L", "X", "X", "X">>,
               <<"X", "C">>>>
RomanHundreds == <<<<"C">>, <<"C", "C">>, <<"C", "C", "C">>>>
Digit(table, d) == IF d = 0 THEN <<>> ELSE table[d]
StandardNumeral(n) ==
    Digit(RomanHundreds, n \div 100) \o Digit(RomanTens, (n \div 10) % 10)
        \o Digit(RomanOnes, n % 10)

\* C39: for every n in 1..255 roman_to_number(n) is the standard
\* subtractive numeral of n (IV for 4, IX for 9, XIV for 14, XXXIV for 34)
\* and roman_to_arabic gives n back.
C39_RomanRoundTrip ==
    /\ (pc \in {"roman", "arabic"} /\ num >= 1) =>
          /\ roman = StandardNumeral(num)
          /\ num = 4 => roman = <<"I", "V">>
          /\ num = 9 => roman = <<"I", "X">>
          /\ num = 14 => roman = <<"X", "I", "V">>
          /\ num = 34 => roman = <<"X", "X", "X", "I", "V">>
    /\ (pc = "arabic" /\ num >= 1) => arabic = num

\* the round trip was made for 249 (CCXLIX), a numeral with two subtractive
\* pairs
C39_Witness ==
    /\ pc = "arabic"
    /\ num = 249
    /\ roman = <<"C", "C", "X", "L", "I", "X">>
    /\ arabic = 249

=============================================================================
